---- MODULE Spec2Model ----
(***************************************************************************)
(* A model of the ESTC Tiger chat pipeline: the conversation store         *)
(* (shared/conversation_memory.py), the security gate                      *)
(* (agent/evaluators/security_evaluator.py), the output gate               *)
(* (agent/evaluators/output_evaluator.py), the fallback retrieval of       *)
(* shared/elasticsearch_client.py, the market data client                  *)
(* (shared/finnhub_client.py), the response formatting and generate of     *)
(* agent/generators/data_processor.py, and process_query_pipeline of       *)
(* web/app.py.                                                             *)
(***************************************************************************)
EXTENDS Integers, Sequences, FiniteSets, TLC

VARIABLES
    \* ---- conversation store (ConversationManager) ----
    sessions,     \* self.sessions: session id -> session record
    order,        \* insertion order of the keys of self.sessions (a Python dict)
    lock,         \* self.lock: "free", or "stuck" once a holder blocks for ever
    now,          \* datetime.now(), in ticks
    nextUuid,     \* the next id uuid.uuid4() mints
    ret,          \* the last store call: [op, arg, value]
    added,        \* history: add_exchange calls per id since its session was created
    \* ---- security gate (SecurityEvaluator.evaluate) ----
    secPc,            \* "idle", "adjudicating" (in the model call) or "done"
    user_query,       \* the query under evaluation
    matched_patterns, \* evaluate's local: the patterns the scan found
    claude_reply,     \* what the adjudication model call gave
    llmCalls,         \* messages.create calls of the current evaluation
    secResult,        \* the dict evaluate returned
    \* ---- output gate (OutputEvaluator.evaluate) ----
    outResponse,      \* the response under evaluation
    outQuery,         \* the original query
    outResult,        \* the dict evaluate returned
    \* ---- fallback retrieval (ElasticsearchMCPClient, no backend) ----
    fallback_data,    \* the documents loaded from the bulk file
    searchRet,        \* the dict the last search_estc_data returned
    \* ---- market data (FinnhubClient) ----
    api_key,          \* FINNHUB_API_KEY, "" when not configured
    requests,         \* the HTTP requests made so far
    finRet,           \* the last fetch operation and what it returned
    \* ---- response formatting (ElasticsearchGenerator._format_response) ----
    fmtPc,            \* "idle", "formatted", "reformatted"
    fmtResponse,      \* the raw reply
    fmtFormatted,     \* _format_response of it
    fmtReformatted,   \* _format_response of the formatted reply
    \* ---- chat pipeline (process_query_pipeline, ElasticsearchGenerator.generate) ----
    pipePc,           \* "idle", "generate", "prompt", "price", "phrase", "call", "output", "done"
    user_message,     \* the message of the run
    session_id,       \* the session id the client sent, or None
    security_result,  \* the dict of stage 1
    genSession,       \* generate's session_id after get_or_create_session
    retrieved_data,   \* what _retrieve_all_data returned
    conversation_context,     \* <<context>> once the prompt is built, else <<>>
    price_phrase_instruction, \* the instruction added to the prompt, if any
    generator_response,       \* what generate returned
    output_result,    \* the dict of stage 3
    pipeReply,        \* the dict process_query_pipeline returned
    stages,           \* history: the stages invoked in this run
    storeBefore,      \* history: self.sessions when the run began
    runs,             \* the pipeline runs so far
    \* ---- market fetch-need decision (_should_fetch_finnhub_data) ----
    fetch_module,     \* the module whose copy of the function decided
    fetch_query,      \* the query of the last decision, as its words
    data_type_needed, \* what the decision was
    \* ---- concurrent generate calls on the module-level generator ----
    genPc,            \* per run: where its generate call (and its caller) is
    genSessionId,     \* per run: the local session_id of generate
    genPhrase,        \* per run: the price phrase instruction was added
    lists,            \* the list objects made by `self.api_calls = []`
    api_calls,        \* self.api_calls: the list object it refers to
    genMade,          \* history: per run, the calls it made
    genStored,        \* per run: the list object stored by add_exchange, if any
    genLogged         \* per run: what get_api_calls() gave its caller, if called

storeVars == <<sessions, order, lock, now, nextUuid, ret, added>>

secVars == <<secPc, user_query, matched_patterns, claude_reply, llmCalls, secResult>>

outVars == <<outResponse, outQuery, outResult>>

searchVars == <<fallback_data, searchRet>>

finVars == <<api_key, requests, finRet>>

fmtVars == <<fmtPc, fmtResponse, fmtFormatted, fmtReformatted>>

pipeVars ==
    <<pipePc, user_message, session_id, security_result, genSession,
      retrieved_data, conversation_context, price_phrase_instruction,
      generator_response, output_result, pipeReply, stages, storeBefore, runs>>

needVars == <<fetch_module, fetch_query, data_type_needed>>

genVars ==
    <<genPc, genSessionId, genPhrase, lists, api_calls, genMade, genStored,
      genLogged>>

vars ==
    <<storeVars, secVars, outVars, searchVars, finVars, fmtVars, pipeVars,
      needVars, genVars>>

\* ------------------------------------------------------------------ bounds
\* The pipeline runs of one behaviour.
MaxRuns == 2


\* uuid4 mints the ids 1..MaxMint.
MaxMint == 2

\* The clock runs from 0 to MaxTime.
MaxTime == 1

\* add_exchange calls per session that the model follows: under Spec, where
\* every store operation and the clock interleave, and under SpecHistory,
\* where histories grow past the trim.
MaxStoreAdds == 1

MaxAdds == 21

\* ConversationManager(max_sessions, session_timeout_hours): the configuration.
max_sessions == 1

session_timeout == 0

\* Words of a query.
MaxWords == 3

\* Fragments of a response.
MaxFragments == 2

\* Documents of the fallback corpus, and the largest limit of a search.
MaxDocs == 3
MaxLimit == 3

\* Documents of a fallback corpus that spreads over seven indices.
MaxWideDocs == 8

\* HTTP requests of the market data client, and years of a series.
MaxRequests == 3
MaxYears == 1

\* Tokens of a raw reply.
MaxReplyLen == 6

\* ------------------------------------------------------- program constants

max_conversation_tokens == 4000

avg_tokens_per_exchange == 200

\* SecurityEvaluator.evaluate: the two hard caps
query_length_cap == 1000

special_char_cap == 15

\* ------------------------------------------------------------------ helpers

\* Python's None, and the value of a call that never returns
None == -1

Blocked == -2

Ids == 1..MaxMint

Min(a, b) == IF a <= b THEN a ELSE b

\* seq[-n:] of Python, for 0 < n
LastN(seq, n) ==
    IF Len(seq) <= n THEN seq ELSE SubSeq(seq, Len(seq) - n + 1, Len(seq))

\* del d[k] for every k in ks, on the dict (sess, ord)
Restrict(sess, keep) == [i \in (DOMAIN sess) \cap keep |-> sess[i]]

FilterOrder(ord, keep) == SelectSeq(ord, LAMBDA i : i \in keep)

\* ------------------------------------------------------- conversation store

\* The session dict literal of get_or_create_session (and of the two inline
\* creations of the price-flag methods). created_at, which no store operation
\* reads back except get_session_info, is left out.
NewSession(t, flag) ==
    [last_accessed |-> t,
     conversation_history |-> <<>>,
     current_price_mentioned |-> flag]

\* sorted(self.sessions.items(), key=last_accessed): a stable sort of the
\* dict's items, which come in insertion order.
RECURSIVE InsertSorted(_, _, _)
InsertSorted(sess, sorted, id) ==
    IF sorted = <<>> THEN <<id>>
    ELSE IF sess[Head(sorted)].last_accessed <= sess[id].last_accessed
         THEN <<Head(sorted)>> \o InsertSorted(sess, Tail(sorted), id)
         ELSE <<id>> \o sorted

RECURSIVE SortedSessions(_, _)
SortedSessions(sess, ord) ==
    IF ord = <<>> THEN <<>>
    ELSE InsertSorted(sess, SortedSessions(sess, SubSeq(ord, 1, Len(ord) - 1)),
                      ord[Len(ord)])

\* A sweep that drops the newest excess sessions instead of the oldest.
CleanupEvictsNewest(sess, ord, t) ==
    LET expired == {i \in DOMAIN sess : t - sess[i].last_accessed > session_timeout}
        keep1 == (DOMAIN sess) \ expired
        s1 == Restrict(sess, keep1)
        o1 == FilterOrder(ord, keep1)
        n == Cardinality(keep1)
    IN  IF n > max_sessions
        THEN LET sorted == SortedSessions(s1, o1)
                 excess == {sorted[k] : k \in (max_sessions + 1)..n}
             IN  [sessions |-> Restrict(s1, keep1 \ excess),
                  order |-> FilterOrder(o1, keep1 \ excess)]
        ELSE [sessions |-> s1, order |-> o1]

\* _cleanup_old_sessions: drop the expired sessions, then the oldest excess.
CleanupOldSessions(sess, ord, t) ==
    LET expired == {i \in DOMAIN sess : t - sess[i].last_accessed > session_timeout}
        keep1 == (DOMAIN sess) \ expired
        s1 == Restrict(sess, keep1)
        o1 == FilterOrder(ord, keep1)
        n == Cardinality(keep1)
    IN  IF n > max_sessions
        THEN LET sorted == SortedSessions(s1, o1)
                 excess == {sorted[k] : k \in 1..(n - max_sessions)}
             IN  [sessions |-> Restrict(s1, keep1 \ excess),
                  order |-> FilterOrder(o1, keep1 \ excess)]
        ELSE [sessions |-> s1, order |-> o1]

\* self.sessions[id] = {...} for a key that is not in the dict
PutNew(sess, id, rec) ==
    [i \in (DOMAIN sess) \cup {id} |-> IF i = id THEN rec ELSE sess[i]]

\* A trim that keeps the oldest exchanges: history[:max_exchanges].
TrimKeepsOldest(history) ==
    LET max_exchanges == max_conversation_tokens \div avg_tokens_per_exchange
    IN  IF Len(history) > max_exchanges
        THEN SubSeq(history, 1, max_exchanges)
        ELSE history

\* _trim_conversation_history
TrimConversationHistory(history) ==
    LET max_exchanges == max_conversation_tokens \div avg_tokens_per_exchange
    IN  IF Len(history) > max_exchanges
        THEN LastN(history, max_exchanges)
        ELSE history

\* The history variable `added` after a call that leaves the store as sess2
\* and appended an exchange to the sessions in `appended`.
AddedAfter(sess2, appended) ==
    [i \in Ids |->
        IF i \in DOMAIN sess2
        THEN (IF i \in DOMAIN sessions THEN added[i] ELSE 0)
             + (IF i \in appended THEN 1 ELSE 0)
        ELSE 0]

\* Ids a client can pass: the ids minted so far, in the store or not (cleared
\* or evicted).
ClientIds == {i \in Ids : i < nextUuid}

\* get_or_create_session without the lookup of the given id: it always
\* creates.
GetOrCreateAlwaysCreates(arg) ==
    /\ lock = "free"
    /\ nextUuid <= MaxMint
    /\ LET new_session_id == nextUuid
           after == CleanupOldSessions(
                        PutNew(sessions, new_session_id, NewSession(now, FALSE)),
                        Append(order, new_session_id), now)
       IN  /\ sessions' = after.sessions
           /\ order' = after.order
           /\ ret' = [op |-> "get_or_create_session", arg |-> arg,
                      value |-> new_session_id]
           /\ added' = AddedAfter(after.sessions, {})
    /\ nextUuid' = nextUuid + 1
    /\ UNCHANGED <<lock, now>>

\* get_or_create_session(session_id)
GetOrCreateSession(arg) ==
    /\ lock = "free"
    /\ IF arg # None /\ arg \in DOMAIN sessions
       THEN /\ sessions' = [sessions EXCEPT ![arg].last_accessed = now]
            /\ ret' = [op |-> "get_or_create_session", arg |-> arg, value |-> arg]
            /\ added' = AddedAfter(sessions', {})
            /\ UNCHANGED <<order, nextUuid>>
       ELSE /\ nextUuid <= MaxMint
            /\ LET new_session_id == nextUuid
                   after == CleanupOldSessions(
                                PutNew(sessions, new_session_id, NewSession(now, FALSE)),
                                Append(order, new_session_id), now)
               IN  /\ sessions' = after.sessions
                   /\ order' = after.order
                   /\ ret' = [op |-> "get_or_create_session", arg |-> arg,
                              value |-> new_session_id]
                   /\ added' = AddedAfter(after.sessions, {})
            /\ nextUuid' = nextUuid + 1
    /\ UNCHANGED <<lock, now>>

\* add_exchange(session_id, user_query, assistant_response, ...). For an id that is not in the store the
\* method calls get_or_create_session while it holds the non-reentrant
\* self.lock, and blocks there for ever.
AddExchangeWith(sid, exchange) ==
    /\ lock = "free"
    /\ IF sid \notin DOMAIN sessions
       THEN /\ lock' = "stuck"
            /\ ret' = [op |-> "add_exchange", arg |-> sid, value |-> Blocked]
            /\ UNCHANGED <<sessions, order, added>>
       ELSE /\ LET history == Append(sessions[sid].conversation_history, exchange)
               IN  sessions' = [sessions EXCEPT
                       ![sid].conversation_history = TrimConversationHistory(history),
                       ![sid].last_accessed = now]
            /\ ret' = [op |-> "add_exchange", arg |-> sid, value |-> None]
            /\ added' = AddedAfter(sessions', {sid})
            /\ UNCHANGED <<order, lock>>
    /\ UNCHANGED <<now, nextUuid>>

\* The k-th add_exchange of the store's own specifications for a session: its
\* exchange is told apart by the query k.
AddExchange(sid) == AddExchangeWith(sid, [user_query |-> added[sid] + 1])

\* clear_session(session_id)
ClearSession(sid) ==
    /\ lock = "free"
    /\ IF sid \in DOMAIN sessions
       THEN /\ sessions' = Restrict(sessions, (DOMAIN sessions) \ {sid})
            /\ order' = FilterOrder(order, (DOMAIN sessions) \ {sid})
            /\ ret' = [op |-> "clear_session", arg |-> sid, value |-> TRUE]
       ELSE /\ ret' = [op |-> "clear_session", arg |-> sid, value |-> FALSE]
            /\ UNCHANGED <<sessions, order>>
    /\ added' = AddedAfter(sessions', {})
    /\ UNCHANGED <<lock, now, nextUuid>>

\* has_current_price_been_mentioned without its membership test: it writes a
\* new session over the one in the store.
HasOverwritesSession(sid) ==
    /\ lock = "free"
    /\ sessions' = PutNew(sessions, sid, NewSession(now, FALSE))
    /\ order' = IF sid \in DOMAIN sessions THEN order ELSE Append(order, sid)
    /\ ret' = [op |-> "has_current_price_been_mentioned", arg |-> sid,
               value |-> sessions'[sid].current_price_mentioned]
    /\ added' = AddedAfter(sessions', {})
    /\ UNCHANGED <<lock, now, nextUuid>>

\* has_current_price_been_mentioned(session_id)
HasCurrentPriceBeenMentioned(sid) ==
    /\ lock = "free"
    /\ IF sid \notin DOMAIN sessions
       THEN /\ sessions' = PutNew(sessions, sid, NewSession(now, FALSE))
            /\ order' = Append(order, sid)
       ELSE UNCHANGED <<sessions, order>>
    /\ ret' = [op |-> "has_current_price_been_mentioned", arg |-> sid,
               value |-> sessions'[sid].current_price_mentioned]
    /\ added' = AddedAfter(sessions', {})
    /\ UNCHANGED <<lock, now, nextUuid>>

\* mark_current_price_mentioned(session_id)
MarkCurrentPriceMentioned(sid) ==
    /\ lock = "free"
    /\ IF sid \notin DOMAIN sessions
       THEN /\ sessions' = PutNew(sessions, sid, NewSession(now, TRUE))
            /\ order' = Append(order, sid)
       ELSE /\ sessions' = [sessions EXCEPT ![sid].current_price_mentioned = TRUE]
            /\ UNCHANGED order
    /\ ret' = [op |-> "mark_current_price_mentioned", arg |-> sid, value |-> None]
    /\ added' = AddedAfter(sessions', {})
    /\ UNCHANGED <<lock, now, nextUuid>>

\* The clock advances between calls.
Tick ==
    /\ now < MaxTime
    /\ now' = now + 1
    /\ UNCHANGED <<sessions, order, lock, nextUuid, ret, added>>

StoreInit ==
    /\ sessions = <<>>
    /\ order = <<>>
    /\ lock = "free"
    /\ now = 0
    /\ nextUuid = 1
    /\ ret = [op |-> "none", arg |-> None, value |-> None]
    /\ added = [i \in Ids |-> 0]

\* ------------------------------------------------------------ security gate

\* A query is a sequence of words joined by single blanks, followed by `pad`
\* letters and `brackets` opening parentheses.
Vocabulary ==
    {"stock", "ignore", "previous", "instructions", "DROP", "table", "<script>"}

\* len(word)
WordLen(w) ==
    CASE w = "stock" -> 5
      [] w = "ignore" -> 6
      [] w = "previous" -> 8
      [] w = "instructions" -> 12
      [] w = "DROP" -> 4
      [] w = "table" -> 5
      [] w = "<script>" -> 8

\* the characters of the word that are in "';\"(){}[]<>"
WordSpecial(w) == IF w = "<script>" THEN 2 ELSE 0

\* str.lower
Lower(w) == IF w = "DROP" THEN "drop" ELSE w

RECURSIVE SumWordLen(_)
SumWordLen(words) ==
    IF words = <<>> THEN 0 ELSE WordLen(Head(words)) + SumWordLen(Tail(words))

RECURSIVE SumWordSpecial(_)
SumWordSpecial(words) ==
    IF words = <<>> THEN 0
    ELSE WordSpecial(Head(words)) + SumWordSpecial(Tail(words))

\* len(user_query)
QueryLen(q) ==
    SumWordLen(q.words)
      + (IF Len(q.words) > 0 THEN Len(q.words) - 1 ELSE 0)
      + q.pad + q.brackets

\* sum(1 for char in user_query if char in "';\"(){}[]<>")
SpecialCharCount(q) == SumWordSpecial(q.words) + q.brackets

\* The patterns of the two families that the vocabulary can spell, each the
\* literals that its regex joins with ".*".
jailbreak_patterns ==
    << <<"ignore", "previous", "instructions">>,
       <<"drop", "table">>,
       <<"<script>">> >>

suspicious_elasticsearch_patterns ==
    << <<"drop", "table">> >>

\* re.search(pattern, text): the literals occur in this order
RECURSIVE ReSearch(_, _)
ReSearch(pattern, text) ==
    IF pattern = <<>> THEN TRUE
    ELSE IF text = <<>> THEN FALSE
    ELSE IF Head(text) = Head(pattern)
         THEN ReSearch(Tail(pattern), Tail(text))
         ELSE ReSearch(pattern, Tail(text))

\* _find_matching_patterns
FindMatchingPatterns(q) ==
    LET query_lower == [i \in 1..Len(q.words) |-> Lower(q.words[i])]
        Tag(family, patterns) ==
            [i \in 1..Len(patterns) |-> [family |-> family, pattern |-> patterns[i]]]
        Hit(p) == ReSearch(p.pattern, query_lower)
    IN  SelectSeq(Tag("Jailbreak", jailbreak_patterns), Hit)
          \o SelectSeq(Tag("Elasticsearch", suspicious_elasticsearch_patterns), Hit)

\* What messages.create gives: it raises; or a JSON object with the keys
\* "safe" and "reason"; or any other text, which may hold the words "safe"
\* and "true", and may signal unsafe ("unsafe", "safe: false", which hold
\* the word "safe").
ClaudeReplies ==
    {[kind |-> "raise"]}
      \cup [kind : {"verdict"}, safe : BOOLEAN]
      \cup {r \in [kind : {"text"}, has_safe : BOOLEAN, has_true : BOOLEAN,
                    has_unsafe : BOOLEAN] : r.has_unsafe => r.has_safe}

NoReply == [kind |-> "none"]

BlockedForSecurity(patterns) ==
    [safe |-> FALSE, reason |-> "Query blocked for security reasons",
     patterns_matched |-> patterns]

\* An except branch that fails open: it allows whatever the scan found.
ExceptAllows(patterns) ==
    [safe |-> TRUE,
     reason |-> "Security evaluation failed, but no obvious threats detected"]

\* The except branch of _evaluate_with_claude
ExceptResult(patterns) ==
    IF patterns # <<>>
    THEN BlockedForSecurity(patterns)
    ELSE [safe |-> TRUE,
          reason |-> "Security evaluation failed, but no obvious threats detected"]

\* The result of _evaluate_with_claude, given the model's reply
ClaudeResult(reply, patterns) ==
    CASE reply.kind = "raise" -> ExceptResult(patterns)
      [] reply.kind = "verdict" ->
            [safe |-> reply.safe, reason |-> "reason of the model",
             patterns_matched |-> patterns]
      [] reply.kind = "text" ->
            IF reply.has_safe /\ reply.has_true
            THEN [safe |-> TRUE, reason |-> "Query appears safe for processing",
                  patterns_matched |-> patterns]
            ELSE BlockedForSecurity(patterns)

\* The queries the model evaluates: up to MaxWords words, no or many
\* brackets, and no padding or the padding that brings the length to the cap
\* and to one more.
Queries ==
    LET WordSeqs == UNION {[1..n -> Vocabulary] : n \in 0..MaxWords}
        Bare == [words : WordSeqs, pad : {0},
                 brackets : {0, special_char_cap, special_char_cap + 1}]
        Padded(q) == {[q EXCEPT !.pad = n] :
                         n \in {0, query_length_cap - QueryLen(q),
                                query_length_cap + 1 - QueryLen(q)}}
    IN  UNION {Padded(q) : q \in Bare}

\* The length test alone.
HardCapLengthOnly(q) ==
    IF QueryLen(q) > query_length_cap
    THEN << [safe |-> FALSE,
             reason |-> "Query is excessively long and may be malicious"] >>
    ELSE <<>>

\* The two definitive blocks of evaluate: the result returned, if any.
HardCapResult(q) ==
    IF QueryLen(q) > query_length_cap
    THEN << [safe |-> FALSE,
             reason |-> "Query is excessively long and may be malicious"] >>
    ELSE IF SpecialCharCount(q) > special_char_cap
    THEN << [safe |-> FALSE,
             reason |-> "Query contains suspicious number of special characters"] >>
    ELSE <<>>

\* An evaluate without the fast path: every scanned query goes to the model.
AlwaysAdjudicate(matched) ==
    [pc |-> "adjudicating", calls |-> 1,
     result |-> [safe |-> FALSE, reason |-> "none"]]

\* evaluate after the scan: return at once, or call _evaluate_with_claude
AfterScan(matched) ==
    IF matched = <<>>
    THEN [pc |-> "done", calls |-> 0,
          result |-> [safe |-> TRUE, reason |-> "Query appears safe for processing"]]
    ELSE [pc |-> "adjudicating", calls |-> 1,
          result |-> [safe |-> FALSE, reason |-> "none"]]

\* evaluate, up to the return or to the model call of _evaluate_with_claude
Evaluate(q) ==
    /\ secPc = "idle"
    /\ user_query' = q
    /\ claude_reply' = NoReply
    /\ IF HardCapResult(q) # <<>>
       THEN /\ secResult' = HardCapResult(q)[1]
            /\ matched_patterns' = <<>>
            /\ llmCalls' = 0
            /\ secPc' = "done"
       ELSE /\ matched_patterns' = FindMatchingPatterns(q)
            /\ secResult' = AfterScan(matched_patterns').result
            /\ llmCalls' = AfterScan(matched_patterns').calls
            /\ secPc' = AfterScan(matched_patterns').pc

\* _evaluate_with_claude, from the answer of the model call to the return
EvaluateWithClaude(reply) ==
    /\ secPc = "adjudicating"
    /\ claude_reply' = reply
    /\ secResult' = ClaudeResult(reply, matched_patterns)
    /\ secPc' = "done"
    /\ UNCHANGED <<user_query, matched_patterns, llmCalls>>

\* The caller has taken the result; the gate waits for the next query.
SecReturn ==
    /\ secPc = "done"
    /\ secPc' = "idle"
    /\ user_query' = [words |-> <<>>, pad |-> 0, brackets |-> 0]
    /\ matched_patterns' = <<>>
    /\ claude_reply' = NoReply
    /\ llmCalls' = 0
    /\ secResult' = [safe |-> FALSE, reason |-> "none"]

SecInit ==
    /\ secPc = "idle"
    /\ user_query = [words |-> <<>>, pad |-> 0, brackets |-> 0]
    /\ matched_patterns = <<>>
    /\ claude_reply = NoReply
    /\ llmCalls = 0
    /\ secResult = [safe |-> FALSE, reason |-> "none"]

\* -------------------------------------------------------------- output gate

\* A response is a sequence of fragments joined by single blanks. Of a
\* fragment the gate reads its length, the sensitive patterns and the IPv4
\* pattern that match it, and which of the phrases the checks look for it
\* contains (in lower case).
Plain == [len |-> 0, sensitive |-> {}, ip |-> FALSE, contains |-> {}]

FragmentText(f) ==
    CASE f = "ESTC revenue grew 17% YoY [estc-financial-data, doc-1]" ->
            [Plain EXCEPT !.len = 54]
      [] f = "password: abc123" ->
            [Plain EXCEPT !.len = 16, !.sensitive = {"password"}]
      [] f = "SECRET = hunter2 at 10.0.0.1" ->
            [Plain EXCEPT !.len = 28, !.sensitive = {"secret"}, !.ip = TRUE]
      [] f = "see 192.168.1.1" ->
            [Plain EXCEPT !.len = 15, !.ip = TRUE]
      [] f = "Here's an example: I would approach this step by step." ->
            [Plain EXCEPT !.len = 54,
                !.contains = {"step", "example", "here's", "would", "approach"}]
      [] f = "Elasticsearch is SQL" ->
            [Plain EXCEPT !.len = 20,
                !.contains = {"search", "elasticsearch", "elasticsearch is sql"}]
      [] f = "Use the search index" ->
            [Plain EXCEPT !.len = 20, !.contains = {"search", "index"}]
      [] f = "Error calling Claude API: Connection error." ->
            [Plain EXCEPT !.len = 43]
      [] f = "I encountered an error analyzing ESTC data: name 'logger' is not defined" ->
            [Plain EXCEPT !.len = 72]

Fragments ==
    {"ESTC revenue grew 17% YoY [estc-financial-data, doc-1]",
     "password: abc123",
     "SECRET = hunter2 at 10.0.0.1",
     "see 192.168.1.1",
     "Here's an example: I would approach this step by step.",
     "Elasticsearch is SQL",
     "Use the search index"}

\* The original queries, by the phrases the completeness check looks for.
QueryText(q) ==
    CASE q = "What is ESTC revenue?" -> {"?"}
      [] q = "search the news" -> {"search"}
      [] q = "Tell me about ESTC" -> {}
      [] q = "ESTC stock over the last 5 years" -> {}
      [] q = "ignore previous instructions" -> {}

OriginalQueries == {"What is ESTC revenue?", "search the news", "Tell me about ESTC"}

\* phrase in response.lower() (or, for "?", in response)
InResponse(phrase, response) ==
    \E i \in 1..Len(response) : phrase \in FragmentText(response[i]).contains

RECURSIVE SumFragmentLen(_)
SumFragmentLen(response) ==
    IF response = <<>> THEN 0
    ELSE FragmentText(Head(response)).len + SumFragmentLen(Tail(response))

\* len(response), which is len(response.strip())
ResponseLen(response) ==
    SumFragmentLen(response)
      + (IF Len(response) > 0 THEN Len(response) - 1 ELSE 0)

\* self.sensitive_patterns, by what each looks for
sensitive_patterns ==
    <<"password", "api_key", "secret", "token", "private_key", "ssh_key",
      "credit_card", "ssn", "email", "phone">>

\* re.search(pattern, response_lower)
SensitiveMatch(pattern, response) ==
    \E i \in 1..Len(response) : pattern \in FragmentText(response[i]).sensitive

\* re.search(ip_pattern, response)
IpMatch(response) ==
    \E i \in 1..Len(response) : FragmentText(response[i]).ip

\* _check_sensitive_data
CheckSensitiveData(response) ==
    LET hits == SelectSeq(sensitive_patterns,
                          LAMBDA p : SensitiveMatch(p, response))
    IN  IF hits # <<>>
        THEN [safe |-> FALSE, detected |-> "pattern", pattern |-> Head(hits)]
        ELSE IF IpMatch(response)
        THEN [safe |-> FALSE, detected |-> "ip", pattern |-> "ip"]
        ELSE [safe |-> TRUE, detected |-> "nothing", pattern |-> "none"]

quality_indicators ==
    {"step", "example", "here's", "would", "can help", "let me", "i'll",
     "to do this", "approach", "method"}

\* _check_response_quality
CheckResponseQuality(response, query) ==
    LET helpful_score ==
            Cardinality({x \in quality_indicators : InResponse(x, response)})
        generic_score ==
            Cardinality({x \in {"i can help", "let me know", "anything else"} :
                            InResponse(x, response)})
    IN  IF ResponseLen(response) < 20
        THEN [sufficient |-> FALSE,
              feedback |-> "Response is too short and not informative enough"]
        ELSE IF helpful_score < 2
        THEN [sufficient |-> FALSE,
              feedback |-> "Response lacks helpful explanations or guidance"]
        ELSE IF generic_score > 2
        THEN [sufficient |-> FALSE,
              feedback |-> "Response is too generic and not specific enough"]
        ELSE [sufficient |-> TRUE, feedback |-> "none"]

\* _check_completeness
CheckCompleteness(response, query) ==
    LET InQuery(x) == x \in QueryText(query)
        In(x) == InResponse(x, response)
    IN  IF InQuery("list") /\ InQuery("indices")
           /\ ~In("list_indices") /\ ~In("indices")
        THEN [complete |-> FALSE,
              feedback |-> "Response doesn't address the request to list indices"]
        ELSE IF InQuery("mapping") /\ ~In("mapping") /\ ~In("field")
        THEN [complete |-> FALSE,
              feedback |-> "Response doesn't address the mapping request"]
        ELSE IF InQuery("search") /\ ~In("search") /\ ~In("query")
        THEN [complete |-> FALSE,
              feedback |-> "Response doesn't address the search request"]
        ELSE IF InQuery("?") /\ ~In("?") /\ ResponseLen(response) < 100
        THEN [complete |-> FALSE,
              feedback |-> "Query contains questions but response doesn't provide clear answers"]
        ELSE [complete |-> TRUE, feedback |-> "none"]

\* _check_elasticsearch_accuracy
CheckElasticsearchAccuracy(response) ==
    LET In(x) == InResponse(x, response)
        misconceptions ==
            {"elasticsearch is sql", "elasticsearch is nosql", "indices are tables"}
        proper_terms ==
            {"index", "document", "field", "mapping", "cluster", "node", "shard"}
    IN  IF \E m \in misconceptions : In(m)
        THEN [accurate |-> FALSE, feedback |-> "Response contains misconception"]
        ELSE IF In("elasticsearch") /\ Cardinality({t \in proper_terms : In(t)}) < 1
        THEN [accurate |-> FALSE,
              feedback |-> "Response lacks proper Elasticsearch terminology"]
        ELSE [accurate |-> TRUE, feedback |-> "none"]

\* The dict evaluate returns for a failed sensitive-data check.
SecurityRejection(check) ==
    [approved |-> FALSE, category |-> "security",
     feedback |-> [text |-> "Response contains sensitive data",
                   pattern |-> check.pattern]]

Rejection(category, text) ==
    [approved |-> FALSE, category |-> category,
     feedback |-> [text |-> text, pattern |-> "none"]]

\* An evaluate that checks the quality before the sensitive data.
EvaluateQualityFirst(response, query) ==
    IF ~CheckResponseQuality(response, query).sufficient
    THEN Rejection("quality", CheckResponseQuality(response, query).feedback)
    ELSE IF ~CheckSensitiveData(response).safe
    THEN SecurityRejection(CheckSensitiveData(response))
    ELSE [approved |-> TRUE, category |-> "approved",
          feedback |-> [text |-> "Response meets all quality and safety standards",
                        pattern |-> "none"]]

\* evaluate(response, original_query)
OutputEvaluate(response, query) ==
    IF ~CheckSensitiveData(response).safe
    THEN SecurityRejection(CheckSensitiveData(response))
    ELSE IF ~CheckResponseQuality(response, query).sufficient
    THEN Rejection("quality", CheckResponseQuality(response, query).feedback)
    ELSE IF ~CheckCompleteness(response, query).complete
    THEN Rejection("completeness", CheckCompleteness(response, query).feedback)
    ELSE IF ~CheckElasticsearchAccuracy(response).accurate
    THEN Rejection("accuracy", CheckElasticsearchAccuracy(response).feedback)
    ELSE [approved |-> TRUE, category |-> "approved",
          feedback |-> [text |-> "Response meets all quality and safety standards",
                        pattern |-> "none"]]

Responses == UNION {[1..n -> Fragments] : n \in 0..MaxFragments}

\* One call of the output gate.
OutEvaluate(response, query) ==
    /\ outResponse' = response
    /\ outQuery' = query
    /\ outResult' = OutputEvaluate(response, query)

OutInit ==
    /\ outResponse = <<>>
    /\ outQuery = "Tell me about ESTC"
    /\ outResult = [approved |-> FALSE, category |-> "none",
                    feedback |-> [text |-> "none", pattern |-> "none"]]

\* ------------------------------------------------------- fallback retrieval

\* A document of the fallback corpus: its _index, its _id and the words of
\* its searchable text (in lower case). Scores are in tenths; for the
\* bonuses of the indices used here (1.0, 0.6, 0.5) the floating-point scores
\* of one search are ordered as their tenths are.
Indices == {"estc-financial-data", "estc-news", "estc-blog"}

DocWords == {"revenue", "growth"}

Documents ==
    [_index : Indices, _id : {"doc-1"}, text : {{}, {"revenue"}, DocWords}]

doc_type_bonus ==
    [i \in {"estc-financial-data", "estc-stock-data", "estc-competitive-data",
            "estc-product-milestones", "estc-partnership-data",
            "estc-acquisition-history", "estc-analyst-ratings", "estc-rsu-data",
            "estc-news", "estc-earnings", "estc-revenue", "estc-prices",
            "estc-general-data", "estc-company-info"} |->
        CASE i \in {"estc-financial-data", "estc-stock-data",
                    "estc-analyst-ratings", "estc-earnings", "estc-revenue",
                    "estc-prices"} -> 10
          [] i = "estc-rsu-data" -> 9
          [] i \in {"estc-competitive-data", "estc-general-data"} -> 8
          [] i \in {"estc-partnership-data", "estc-company-info"} -> 7
          [] i \in {"estc-product-milestones", "estc-news"} -> 6
          [] i = "estc-acquisition-history" -> 5]

\* doc_type_bonus.get(index_name, 0.5)
DiversityBonus(index_name) ==
    IF index_name \in DOMAIN doc_type_bonus THEN doc_type_bonus[index_name] ELSE 5

type_keywords ==
    [t \in {"financial", "stock", "competitive", "rsu"} |->
        CASE t = "financial" ->
                {"revenue", "earnings", "financial", "growth", "profit", "margin"}
          [] t = "stock" ->
                {"stock", "price", "analyst", "rating", "target", "valuation"}
          [] t = "competitive" ->
                {"datadog", "splunk", "competitor", "competitive", "market share"}
          [] t = "rsu" -> {"rsu", "equity", "compensation", "vesting", "shares"}]

\* the loop over search_terms
RECURSIVE BaseScore(_, _)
BaseScore(doc, search_terms) ==
    IF search_terms = <<>> THEN 0
    ELSE (IF Head(search_terms) \in doc.text THEN 1 ELSE 0)
           + BaseScore(doc, Tail(search_terms))

TypeBonus(doc, query_type) ==
    IF query_type # "general"
    THEN LET type_terms == IF query_type \in DOMAIN type_keywords
                           THEN type_keywords[query_type] ELSE {}
         IN  3 * Cardinality({term \in type_terms : term \in doc.text})
    ELSE 0

Score(doc, query_type, search_terms) ==
    BaseScore(doc, search_terms) * DiversityBonus(doc._index)
      + TypeBonus(doc, query_type)

\* The dict appended for a document of positive score.
SearchResult(doc, score) ==
    [index |-> doc._index, document_id |-> doc._id, score |-> score,
     source |-> doc]

\* the loop over self.fallback_data
RECURSIVE ScoredResults(_, _, _)
ScoredResults(docs, query_type, search_terms) ==
    IF docs = <<>> THEN <<>>
    ELSE LET score == Score(Head(docs), query_type, search_terms)
             rest == ScoredResults(Tail(docs), query_type, search_terms)
         IN  IF score > 0
             THEN <<SearchResult(Head(docs), score)>> \o rest
             ELSE rest

\* results.sort(key=score, reverse=True): a stable sort
RECURSIVE InsertByScore(_, _)
InsertByScore(sorted, result) ==
    IF sorted = <<>> THEN <<result>>
    ELSE IF Head(sorted).score >= result.score
    THEN <<Head(sorted)>> \o InsertByScore(Tail(sorted), result)
    ELSE <<result>> \o sorted

RECURSIVE SortByScore(_)
SortByScore(results) ==
    IF results = <<>> THEN <<>>
    ELSE InsertByScore(SortByScore(SubSeq(results, 1, Len(results) - 1)),
                       results[Len(results)])

\* A first pass that takes the top results whatever their index.
RECURSIVE FirstPassByScore(_, _, _)
FirstPassByScore(results, diverse_results, limit) ==
    IF results = <<>> THEN diverse_results
    ELSE LET appended == Append(diverse_results, Head(results))
         IN  IF Len(appended) >= Min(limit, 6)
             THEN appended
             ELSE FirstPassByScore(Tail(results), appended, limit)

\* First pass: the top result of each index not seen yet.
RECURSIVE FirstPass(_, _, _)
FirstPass(results, diverse_results, limit) ==
    IF results = <<>> THEN diverse_results
    ELSE IF \A i \in 1..Len(diverse_results) :
                diverse_results[i].index # Head(results).index
    THEN LET appended == Append(diverse_results, Head(results))
         IN  IF Len(appended) >= Min(limit, 6)
             THEN appended
             ELSE FirstPass(Tail(results), appended, limit)
    ELSE FirstPass(Tail(results), diverse_results, limit)

\* Second pass: the results not taken yet, by score.
RECURSIVE SecondPass(_, _, _)
SecondPass(results, diverse_results, limit) ==
    IF results = <<>> THEN diverse_results
    ELSE IF \A i \in 1..Len(diverse_results) : diverse_results[i] # Head(results)
    THEN LET appended == Append(diverse_results, Head(results))
         IN  IF Len(appended) >= limit
             THEN appended
             ELSE SecondPass(Tail(results), appended, limit)
    ELSE SecondPass(Tail(results), diverse_results, limit)

\* _search_fallback_data(query_type, search_terms, limit)
SearchFallbackData(docs, query_type, search_terms, limit) ==
    IF docs = <<>>
    THEN [error |-> "No fallback data available", results |-> <<>>, total |-> 0]
    ELSE LET results == SortByScore(ScoredResults(docs, query_type, search_terms))
             diverse_results ==
                 SecondPass(results, FirstPass(results, <<>>, limit), limit)
         IN  [error |-> "none", results |-> diverse_results,
              total |-> Len(diverse_results)]

QueryTypes == {"general", "financial"}

SearchTerms == {<<"revenue">>, <<"growth">>, <<"revenue", "growth">>}

\* _load_fallback_data, document by document, before the first search.
LoadFallbackDocument(doc) ==
    /\ searchRet.op = "none"
    /\ Len(fallback_data) < MaxDocs
    /\ fallback_data' = Append(fallback_data, doc)
    /\ UNCHANGED searchRet

\* search_estc_data of a client without a backend (self.client is None).
SearchEstcData(query_type, search_terms, limit) ==
    /\ searchRet' = [op |-> "search", query_type |-> query_type,
                     search_terms |-> search_terms, limit |-> limit,
                     ret |-> SearchFallbackData(fallback_data, query_type,
                                                search_terms, limit)]
    /\ UNCHANGED fallback_data

\* A bulk file whose documents cycle through seven indices.
WideIndices ==
    <<"estc-financial-data", "estc-stock-data", "estc-analyst-ratings",
      "estc-earnings", "estc-revenue", "estc-prices", "estc-news">>

WideDocuments(n) ==
    [_index : {WideIndices[((n - 1) % Len(WideIndices)) + 1]},
     _id : {"doc-1"}, text : {{"revenue"}, DocWords}]

\* _load_fallback_data of that file, document by document.
LoadWideDocument(doc) ==
    /\ searchRet.op = "none"
    /\ Len(fallback_data) < MaxWideDocs
    /\ \A i \in 1..Len(fallback_data) : fallback_data[i] \in WideDocuments(i)
    /\ doc \in WideDocuments(Len(fallback_data) + 1)
    /\ fallback_data' = Append(fallback_data, doc)
    /\ UNCHANGED searchRet

\* The limits of the searches of the wide corpus: the generator's is 10.
WideLimits == {7, 10}

SearchInit ==
    /\ fallback_data = <<>>
    /\ searchRet = [op |-> "none", query_type |-> "general",
                    search_terms |-> <<>>, limit |-> 1,
                    ret |-> [error |-> "none", results |-> <<>>, total |-> 0]]

\* -------------------------------------------------------------- market data

\* Dates are days counted from 2019-01-01, prices are in cents.
Null == [kind |-> "null"]

LiveSource == "finnhub.io API"

FallbackSource ==
    "training data estimates (Finnhub historical data requires premium tier)"

\* is_available
IsAvailable(key) == key # ""

\* A candle of the provider's history endpoint.
Candles ==
    {[t |-> 2250, c |-> 8400, h |-> 8500, l |-> 8300, o |-> 8350, v |-> 10],
     [t |-> 2252, c |-> 8600, h |-> 8700, l |-> 8500, o |-> 8550, v |-> 20]}

\* What requests.get and the calls on its response can do: raise (timeout,
\* connection error), answer with an HTTP error status, or answer 200 with a
\* payload: a quote, a candle payload with s = "ok" or "no_data", or a
\* payload with s = "ok" that lacks the arrays.
ProviderResponses ==
    {[kind |-> "raise"], [kind |-> "status", status |-> 403],
     [kind |-> "status", status |-> 500],
     [kind |-> "quote", c |-> 8571, pc |-> 8400],
     [kind |-> "quote", c |-> 0, pc |-> 0],
     [kind |-> "candles", s |-> "no_data", t |-> <<>>],
     [kind |-> "candles", s |-> "ok", t |-> <<>>],
     [kind |-> "malformed", s |-> "ok"]}
      \cup {[kind |-> "candles", s |-> "ok", t |-> <<a>>] : a \in Candles}
      \cup {[kind |-> "candles", s |-> "ok", t |-> <<a, b>>] : a, b \in Candles}

\* data.get('s'): a quote payload has no status
PayloadStatus(response) ==
    IF response.kind \in {"candles", "malformed"} THEN response.s ELSE "none"

\* response.raise_for_status() raises, or requests.get did
Raises(response) == response.kind \in {"raise", "status"}

\* get_current_price
CurrentPrice(key, response) ==
    IF ~IsAvailable(key) THEN [value |-> Null, requests |-> 0]
    ELSE IF Raises(response) THEN [value |-> Null, requests |-> 1]
    ELSE [value |-> [kind |-> "quote",
                     current_price |-> IF response.kind = "quote"
                                       THEN response.c ELSE 0,
                     previous_close |-> IF response.kind = "quote"
                                        THEN response.pc ELSE 0,
                     source |-> LiveSource],
          requests |-> 1]

\* get_historical_data(days)
HistoricalData(key, days, response) ==
    IF ~IsAvailable(key) THEN [value |-> Null, requests |-> 0]
    ELSE IF Raises(response) \/ response.kind = "malformed"
    THEN [value |-> Null, requests |-> 1]
    ELSE IF PayloadStatus(response) = "ok"
    THEN [value |-> [kind |-> "historical",
                     dates |-> [i \in 1..Len(response.t) |-> response.t[i].t],
                     prices |-> [i \in 1..Len(response.t) |-> response.t[i].c],
                     days |-> days, source |-> LiveSource],
          requests |-> 1]
    ELSE [value |-> Null, requests |-> 1]

\* price_milestones
price_milestones ==
    <<[date |-> 365, price |-> 4000], [date |-> 439, price |-> 3000],
      [date |-> 517, price |-> 4500], [date |-> 700, price |-> 9000],
      [date |-> 882, price |-> 11000], [date |-> 1065, price |-> 8500],
      [date |-> 1247, price |-> 6000], [date |-> 1430, price |-> 7500],
      [date |-> 1612, price |-> 8500], [date |-> 1795, price |-> 9000],
      [date |-> 1978, price |-> 9500], [date |-> 2161, price |-> 8500]>>

floor_price == 2000

Max(a, b) == IF a >= b THEN a ELSE b

\* The loop of _interpolate_price over the sorted milestones: the last
\* milestone not after the target and the first not before it.
RECURSIVE Surrounding(_, _, _, _)
Surrounding(milestones, i, target, found) ==
    IF i > Len(milestones) THEN found
    ELSE LET before == IF milestones[i].date <= target
                       THEN milestones[i] ELSE found.before
         IN  IF milestones[i].date >= target
             THEN [before |-> before, after |-> milestones[i]]
             ELSE Surrounding(milestones, i + 1, target,
                              [found EXCEPT !.before = before])

\* _interpolate_price, in cents (the division rounds down)
InterpolatePrice(target, milestones) ==
    LET found == Surrounding(milestones, 1, target,
                    [before |-> milestones[1],
                     after |-> milestones[Len(milestones)]])
        days_total == found.after.date - found.before.date
        days_elapsed == target - found.before.date
    IN  IF found.before.date = found.after.date THEN found.before.price
        ELSE Max(found.before.price
                   + ((found.after.price - found.before.price) * days_elapsed)
                        \div days_total,
                 floor_price)

\* round(x, 2) of an amount in thousandths of a cent
Round2(x) == (x + 500) \div 1000

\* random.uniform(0.95, 1.05) of each day, in thousandths: the least, the
\* greatest, and one that changes from day to day.
Variations == {"low", "high", "mixed"}

Variation(schedule, date) ==
    CASE schedule = "low" -> 950
      [] schedule = "high" -> 1050
      [] schedule = "mixed" -> IF date % 2 = 0 THEN 950 ELSE 1050

\* The entry of one day of the synthetic series.
FallbackEntry(date, variation) ==
    LET daily_price == InterpolatePrice(date, price_milestones) * variation
    IN  [date |-> date,
         close |-> Round2(daily_price),
         high |-> Round2((daily_price * 102) \div 100),
         low |-> Round2((daily_price * 98) \div 100),
         open |-> Round2(daily_price - daily_price \div 1000),
         volume |-> 1000000]

\* A loop that stops before the last day.
FallbackDatesOpen(start_date, end_date) == start_date..(end_date - 1)

\* while current_date <= end_date
FallbackDates(start_date, end_date) == start_date..end_date

\* _get_fallback_historical_data(years) called on the day today
FallbackHistoricalData(years, today, schedule) ==
    LET end_date == today
        start_date == end_date - years * 365
    IN  [kind |-> "extended",
         price_data |-> [date \in FallbackDates(start_date, end_date) |->
                            FallbackEntry(date, Variation(schedule, date))],
         start_date |-> start_date, end_date |-> end_date,
         years |-> years, source |-> FallbackSource]

\* The path get_extended_historical_data takes: whether it makes the request,
\* and the source of what it returns: the live series only after a 200 answer
\* with s = 'ok' and its arrays, the fallback series after the credential
\* gate, a 403, a raised exception or a payload that is not 'ok'.
ExtendedPath(key, response) ==
    IF ~IsAvailable(key) THEN [source |-> FallbackSource, requests |-> 0]
    ELSE IF response.kind = "status" /\ response.status = 403
    THEN [source |-> FallbackSource, requests |-> 1]
    ELSE IF Raises(response) \/ response.kind = "malformed"
    THEN [source |-> FallbackSource, requests |-> 1]
    ELSE IF PayloadStatus(response) = "ok"
    THEN [source |-> LiveSource, requests |-> 1]
    ELSE [source |-> FallbackSource, requests |-> 1]

\* An extended fetch that hands the provider's failure on.
ExtendedPropagatesFailure(key, years, today, schedule, response) ==
    IF ~IsAvailable(key)
    THEN [value |-> FallbackHistoricalData(years, today, schedule), requests |-> 0]
    ELSE IF response.kind = "candles" /\ response.s = "ok"
    THEN [value |-> [kind |-> "extended",
                     price_data |-> [date \in {response.t[i].t : i \in 1..Len(response.t)} |->
                                        LET i == CHOOSE j \in 1..Len(response.t) :
                                                    /\ response.t[j].t = date
                                                    /\ \A k \in (j + 1)..Len(response.t) :
                                                          response.t[k].t # date
                                        IN  [date |-> date, close |-> response.t[i].c,
                                             high |-> response.t[i].h, low |-> response.t[i].l,
                                             open |-> response.t[i].o, volume |-> response.t[i].v]],
                     start_date |-> today - years * 365, end_date |-> today,
                     years |-> years, source |-> LiveSource],
          requests |-> 1]
    ELSE [value |-> Null, requests |-> 1]

\* get_extended_historical_data(years)
ExtendedHistoricalData(key, years, today, schedule, response) ==
    LET path == ExtendedPath(key, response)
    IN  [value |->
            IF path.source = LiveSource
            THEN [kind |-> "extended",
                  price_data |-> [date \in {response.t[i].t : i \in 1..Len(response.t)} |->
                                     LET i == CHOOSE j \in 1..Len(response.t) :
                                                 /\ response.t[j].t = date
                                                 /\ \A k \in (j + 1)..Len(response.t) :
                                                       response.t[k].t # date
                                     IN  [date |-> date, close |-> response.t[i].c,
                                          high |-> response.t[i].h, low |-> response.t[i].l,
                                          open |-> response.t[i].o, volume |-> response.t[i].v]],
                  start_date |-> today - years * 365, end_date |-> today,
                  years |-> years, source |-> LiveSource]
            ELSE FallbackHistoricalData(years, today, schedule),
         requests |-> path.requests]

Abs(x) == IF x >= 0 THEN x ELSE 0 - x

\* get_price_for_date(target_date): the first candle closest to the date
PriceForDate(key, target_date, response) ==
    IF ~IsAvailable(key) THEN [value |-> Null, requests |-> 0]
    ELSE IF Raises(response) \/ response.kind = "malformed"
    THEN [value |-> Null, requests |-> 1]
    ELSE IF PayloadStatus(response) = "ok" /\ Len(response.t) > 0
    THEN LET diff(i) == Abs(response.t[i].t - target_date)
             closest == CHOOSE i \in 1..Len(response.t) :
                            /\ \A j \in 1..Len(response.t) : diff(i) <= diff(j)
                            /\ \A j \in 1..(i - 1) : diff(j) > diff(i)
         IN  [value |-> [kind |-> "price_for_date",
                         requested_date |-> target_date,
                         actual_date |-> response.t[closest].t,
                         close |-> response.t[closest].c,
                         source |-> LiveSource],
              requests |-> 1]
    ELSE [value |-> Null, requests |-> 1]

\* get_stock_summary: the quote, then 30 days of history
StockSummary(key, quote, candles) ==
    IF ~IsAvailable(key) THEN [value |-> Null, requests |-> 0]
    ELSE LET current == CurrentPrice(key, quote).value
             historical == HistoricalData(key, 30, candles).value
         IN  IF current = Null THEN [value |-> Null, requests |-> 2]
             ELSE [value |-> [kind |-> "summary",
                              current_price |-> current.current_price,
                              previous_close |-> current.previous_close,
                              week |-> historical # Null /\ Len(historical.prices) >= 7,
                              month |-> historical # Null /\ Len(historical.prices) >= 30,
                              source |-> LiveSource],
                   requests |-> 2]

\* The days on which the series is asked for: before the first milestone,
\* between milestones, on a milestone, and after the last one.
Todays == {500, 1339, 2161, 2865}

TargetDates == {2250, 2251, 2253}

\* One fetch operation of the client: what it returns, and the requests it
\* made.
\* finRet also keeps the arguments of the call, the day of the call and what
\* the provider answered.
Fetch(op, arg, response, result) ==
    /\ finRet.op = "none"
    /\ requests + result.requests <= MaxRequests
    /\ requests' = requests + result.requests
    /\ finRet' = [op |-> op, arg |-> arg, response |-> response,
                  value |-> result.value, made |-> result.requests]
    /\ UNCHANGED api_key

GetCurrentPrice(response) ==
    Fetch("get_current_price", [today |-> 0], response,
          CurrentPrice(api_key, response))

GetHistoricalData(days, response) ==
    Fetch("get_historical_data", [days |-> days], response,
          HistoricalData(api_key, days, response))

GetExtendedHistoricalData(years, today, schedule, response) ==
    Fetch("get_extended_historical_data", [years |-> years, today |-> today],
          response,
          ExtendedHistoricalData(api_key, years, today, schedule, response))

GetPriceForDate(target_date, response) ==
    Fetch("get_price_for_date", [target_date |-> target_date], response,
          PriceForDate(api_key, target_date, response))

GetStockSummary(quote, candles) ==
    Fetch("get_stock_summary", [today |-> 0],
          [kind |-> "pair", quote |-> quote, candles |-> candles],
          StockSummary(api_key, quote, candles))

NoFetch ==
    [op |-> "none", arg |-> [today |-> 0], response |-> [kind |-> "none"],
     value |-> Null, made |-> 0]

\* The caller has taken the value of the fetch.
FinReturn ==
    /\ finRet.op # "none"
    /\ finRet' = NoFetch
    /\ UNCHANGED <<api_key, requests>>

FinInit ==
    /\ api_key \in {"", "key"}
    /\ requests = 0
    /\ finRet = NoFetch

\* ------------------------------------------------------ response formatting

\* A reply is a sequence of tokens: single characters, and the phrases that
\* _format_response looks for (none of which contains a blank-dash-blank or
\* another phrase).
Newline == "\n"

section_headers ==
    {"Key Metrics:", "Investment Perspective:", "For RSU holders:",
     "Key ESTC Metrics:", "Current Performance:", "Outlook:",
     "Recommendation:", "Summary:", "Analysis:"}

question_openers == {"Would you like", "Do you need"}

ReplyTokens == {"a", " ", "-", Newline, "Summary:"}

Replies == UNION {[1..n -> ReplyTokens] : n \in 0..MaxReplyLen}

\* response.replace(' - ', '\n- '): the matches are taken from the left and
\* do not overlap
RECURSIVE ReplaceDashes(_)
ReplaceDashes(text) ==
    IF Len(text) >= 3 /\ SubSeq(text, 1, 3) = <<" ", "-", " ">>
    THEN <<Newline, "-", " ">> \o ReplaceDashes(SubSeq(text, 4, Len(text)))
    ELSE IF text = <<>> THEN <<>>
    ELSE <<Head(text)>> \o ReplaceDashes(Tail(text))

\* formatted.replace(phrase, '\n\n' + phrase), for the headers and openers
RECURSIVE BreakBeforePhrases(_)
BreakBeforePhrases(text) ==
    IF text = <<>> THEN <<>>
    ELSE IF Head(text) \in section_headers \cup question_openers
    THEN <<Newline, Newline, Head(text)>> \o BreakBeforePhrases(Tail(text))
    ELSE <<Head(text)>> \o BreakBeforePhrases(Tail(text))

\* re.sub of three or more newlines by two
RECURSIVE CollapseNewlines(_)
CollapseNewlines(text) ==
    IF text = <<>> THEN <<>>
    ELSE IF Len(text) >= 3 /\ text[1] = Newline /\ text[2] = Newline
            /\ text[3] = Newline
    THEN CollapseNewlines(Tail(text))
    ELSE <<Head(text)>> \o CollapseNewlines(Tail(text))

Whitespace == {" ", Newline}

\* formatted.strip()
RECURSIVE Strip(_)
Strip(text) ==
    IF text = <<>> THEN <<>>
    ELSE IF Head(text) \in Whitespace THEN Strip(Tail(text))
    ELSE IF text[Len(text)] \in Whitespace
    THEN Strip(SubSeq(text, 1, Len(text) - 1))
    ELSE text

\* _format_response
FormatResponseText(response) ==
    Strip(CollapseNewlines(BreakBeforePhrases(ReplaceDashes(response))))

\* generate formats the model's reply.
FormatResponse(response) ==
    /\ fmtPc = "idle"
    /\ fmtPc' = "formatted"
    /\ fmtResponse' = response
    /\ fmtFormatted' = FormatResponseText(response)
    /\ UNCHANGED fmtReformatted

\* The formatted reply is formatted again.
Reformat ==
    /\ fmtPc = "formatted"
    /\ fmtPc' = "reformatted"
    /\ fmtReformatted' = FormatResponseText(fmtFormatted)
    /\ UNCHANGED <<fmtResponse, fmtFormatted>>

FormatReturn ==
    /\ fmtPc \in {"formatted", "reformatted"}
    /\ fmtPc' = "idle"
    /\ fmtResponse' = <<>>
    /\ fmtFormatted' = <<>>
    /\ fmtReformatted' = <<>>

FmtInit ==
    /\ fmtPc = "idle"
    /\ fmtResponse = <<>>
    /\ fmtFormatted = <<>>
    /\ fmtReformatted = <<>>

\* ------------------------------------------------- market fetch-need decision

\* A query is a sequence of words joined by single blanks. No keyword of the
\* decision spans two of these words.
\* keyword in query_lower: some word of the query holds it as a substring
InQuery(keyword, words) ==
    \E i \in 1..Len(words) :
        \/ words[i] = keyword
        \/ words[i] = "know" /\ keyword = "now"

\* analyze_query_intent: the number of keywords of each category in the query;
\* primary_type: max(scores, key=scores.get) takes the first category of the
\* dict with the greatest score, 'general' if every score is 0
PrimaryType(words) ==
    LET categories == <<"financial", "stock", "competitive", "rsu">>
        financial_keywords ==
            {"revenue", "earnings", "profit", "margin", "growth", "financial",
             "income", "sales"}
        stock_keywords ==
            {"stock", "price", "analyst", "rating", "target", "valuation",
             "market cap"}
        competitive_keywords ==
            {"datadog", "splunk", "competitor", "competitive", "market share",
             "comparison"}
        rsu_keywords ==
            {"rsu", "equity", "compensation", "vesting", "stock options",
             "shares"}
        score(i) ==
            Cardinality({k \in CASE i = 1 -> financial_keywords
                                 [] i = 2 -> stock_keywords
                                 [] i = 3 -> competitive_keywords
                                 [] i = 4 -> rsu_keywords : InQuery(k, words)})
        best == CHOOSE i \in 1..4 :
                    /\ \A j \in 1..4 : score(j) <= score(i)
                    /\ \A j \in 1..(i - 1) : score(j) < score(i)
    IN  IF score(best) > 0 THEN categories[best] ELSE "general"

historical_keywords ==
    {"last 5 years", "last five years", "historical", "over time", "years",
     "correlation", "trend", "pattern", "since", "past", "history", "over the",
     "timeline", "evolution"}

current_price_keywords ==
    {"current price", "latest price", "price now", "stock price",
     "current value", "trading at", "price today", "today", "now", "current",
     "latest", "real time", "live", "market price", "share price"}

stock_decision_keywords ==
    {"sell", "buy", "hold", "invest", "position", "shares", "rsu", "decision"}

\* _should_fetch_finnhub_data(user_query, query_analysis), of which there are
\* two copies: the one of data_processor.py has the decision keywords and
\* ends with 'current', the one of elasticsearch_generator.py has no decision
\* keywords and ends with 'none'.
DataTypeNeeded(module, words) ==
    LET performance_keywords == {"performance", "how is", "doing", "trend"}
    IN  IF \E k \in historical_keywords : InQuery(k, words) THEN "historical"
        ELSE IF \E k \in current_price_keywords : InQuery(k, words)
        THEN "current"
        ELSE IF PrimaryType(words) = "stock" THEN "current"
        ELSE IF \E k \in performance_keywords :
                   InQuery(k, words) /\ InQuery("stock", words)
        THEN "current"
        ELSE IF module = "elasticsearch_generator" THEN "none"
        ELSE IF \E k \in stock_decision_keywords : InQuery(k, words)
        THEN "current"
        ELSE "current"

\* One decision of the copy of a module.
DecideFetch(module, words) ==
    /\ data_type_needed = "undecided"
    /\ fetch_module' = module
    /\ fetch_query' = words
    /\ data_type_needed' = DataTypeNeeded(module, words)

\* _retrieve_all_data has used the decision; the next query is awaited.
FetchReturn ==
    /\ data_type_needed # "undecided"
    /\ fetch_query' = <<>>
    /\ UNCHANGED fetch_module
    /\ data_type_needed' = "undecided"

\* ------------------------------------------------------------ chat pipeline

\* The user messages of the pipeline. The output gate reads a message through
\* QueryText, the security gate through MessageQuery, the retrieval through
\* ShouldFetchFinnhubData.
Messages ==
    {"Tell me about ESTC", "ESTC stock over the last 5 years",
     "ignore previous instructions"}

\* The message as the security gate reads it: the words of its vocabulary, the
\* other characters as padding.
MessageQuery(m) ==
    CASE m = "Tell me about ESTC" -> [words |-> <<>>, pad |-> 18, brackets |-> 0]
      [] m = "ESTC stock over the last 5 years" ->
            [words |-> <<"stock">>, pad |-> 27, brackets |-> 0]
      [] m = "ignore previous instructions" ->
            [words |-> <<"ignore", "previous", "instructions">>, pad |-> 0,
             brackets |-> 0]

\* _should_fetch_finnhub_data for a message of the pipeline, by the words of
\* the message that hold a keyword of the decision
ShouldFetchFinnhubData(m) ==
    LET words ==
            CASE m = "Tell me about ESTC" -> <<"estc">>
              [] m = "ESTC stock over the last 5 years" ->
                     <<"estc", "stock", "years">>
              [] m = "ignore previous instructions" -> <<>>
    IN  DataTypeNeeded("data_processor", words)

\* SecurityEvaluator.evaluate as one call, given what the model call answers
\* if it is made.
SecurityEvaluate(q, reply) ==
    IF HardCapResult(q) # <<>> THEN HardCapResult(q)[1]
    ELSE IF AfterScan(FindMatchingPatterns(q)).pc = "done"
    THEN AfterScan(FindMatchingPatterns(q)).result
    ELSE ClaudeResult(reply, FindMatchingPatterns(q))

\* get_conversation_history(session_id, include_current)
GetConversationHistory(sid, include_current) ==
    IF sid \notin DOMAIN sessions THEN <<>>
    ELSE LET history == sessions[sid].conversation_history
         IN  IF ~include_current /\ history # <<>>
             THEN SubSeq(history, 1, Len(history) - 1)
             ELSE history

\* exchange['assistant_response'][:300], and '...' after it if it is longer
context_response_cap == 300

\* get_context_for_llm(session_id): the exchanges it renders, in order, each
\* with its label, the query, how much of the response is shown and whether
\* the ellipsis follows; <<>> is the empty string.
GetContextForLlm(sid) ==
    LET history == GetConversationHistory(sid, FALSE)
        max_exchanges ==
            Min(Len(history), max_conversation_tokens \div avg_tokens_per_exchange)
        recent_history ==
            IF max_exchanges > 0 THEN LastN(history, max_exchanges) ELSE <<>>
    IN  IF history = <<>> THEN <<>>
        ELSE [i \in 1..Len(recent_history) |->
                [label |-> i,
                 user_query |-> recent_history[i].user_query,
                 assistant_response |-> recent_history[i].assistant_response,
                 shown |-> Min(ResponseLen(recent_history[i].assistant_response),
                               context_response_cap),
                 ellipsis |-> ResponseLen(recent_history[i].assistant_response)
                                > context_response_cap]]

\* What generate reads of the dict get_stock_summary returned: whether it is
\* None, its 'current_price' key and its source.
FinnhubData(value) ==
    IF value = Null THEN Null
    ELSE [kind |-> value.kind, current_price |-> <<value.current_price>>,
          source |-> value.source]

\* What generate reads of the dict get_extended_historical_data returned: it
\* is never None, it has no 'current_price' key, and its source.
ExtendedFinnhubData(key, response) ==
    [kind |-> "extended", current_price |-> <<>>,
     source |-> ExtendedPath(key, response).source]

\* _retrieve_all_data: connection_status and finnhub_data
RetrieveAllData(m, key, connected, quote, candles) ==
    [connection_status |-> connected,
     finnhub_data |->
        IF ~IsAvailable(key) THEN Null
        ELSE IF ShouldFetchFinnhubData(m) = "historical"
        THEN ExtendedFinnhubData(key, candles)
        ELSE FinnhubData(StockSummary(key, quote, candles).value)]

\* What the provider answers to the pipeline's requests.
QuoteAnswers == {[kind |-> "raise"], [kind |-> "quote", c |-> 8571, pc |-> 8400]}

CandleAnswers ==
    {[kind |-> "status", status |-> 403],
     [kind |-> "candles", s |-> "ok",
      t |-> << [t |-> 2250, c |-> 8400, h |-> 8500, l |-> 8300, o |-> 8350,
                v |-> 10] >>]}

\* What the generation model call gives: it raises, or a text. None of the
\* texts holds a substring that _format_response rewrites, so each is its own
\* formatted response.
PipelineReplies ==
    {<<"password: abc123">>,
     [i \in 1..6 |-> "Here's an example: I would approach this step by step."]}

ClaudeApiError == <<"Error calling Claude API: Connection error.">>

\* The NameError of the logger.error call at line 59, as generate returns it.
ConnectionError ==
    <<"I encountered an error analyzing ESTC data: name 'logger' is not defined">>

NoResult == [kind |-> "none"]

NoPhrase == [kind |-> "none"]

\* process_query_pipeline up to the return of stage 1 or the call of stage 2:
\* the security gate evaluates the message.
ProcessQueryPipelineNoReturn(message, sid, reply) ==
    /\ pipePc = "idle"
    /\ runs < MaxRuns
    /\ (sid \in DOMAIN sessions \/ nextUuid <= MaxMint)
    /\ user_message' = message
    /\ session_id' = sid
    /\ security_result' = SecurityEvaluate(MessageQuery(message), reply)
    /\ stages' = <<"security">>
    /\ storeBefore' = sessions
    /\ pipeReply' = NoResult
    /\ pipePc' = "generate"
    /\ runs' = runs + 1
    /\ UNCHANGED <<genSession, retrieved_data, conversation_context,
                   price_phrase_instruction, generator_response, output_result>>

ProcessQueryPipeline(message, sid, reply) ==
    /\ pipePc = "idle"
    /\ runs < MaxRuns
    /\ (sid \in DOMAIN sessions \/ nextUuid <= MaxMint)
    /\ user_message' = message
    /\ session_id' = sid
    /\ security_result' = SecurityEvaluate(MessageQuery(message), reply)
    /\ stages' = <<"security">>
    /\ storeBefore' = sessions
    /\ IF ~security_result'.safe
       THEN /\ pipeReply' = [kind |-> "reason", response |-> security_result'.reason,
                             blocked |-> TRUE, session_id |-> sid]
            /\ pipePc' = "done"
       ELSE /\ pipeReply' = NoResult
            /\ pipePc' = "generate"
    /\ runs' = runs + 1
    /\ UNCHANGED <<genSession, retrieved_data, conversation_context,
                   price_phrase_instruction, generator_response, output_result>>

\* generate, lines 52-60: get_or_create_session, _retrieve_all_data and the
\* connection check, whose logger is not defined.
GenerateRetrieve(connected, quote, candles) ==
    /\ pipePc = "generate"
    /\ GetOrCreateSession(session_id)
    /\ genSession' = ret'.value
    /\ retrieved_data' = RetrieveAllData(user_message, api_key, connected, quote,
                                         candles)
    /\ stages' = Append(stages, "generate")
    /\ IF ~connected
       THEN /\ generator_response' = ConnectionError
            /\ pipePc' = "output"
       ELSE /\ UNCHANGED generator_response
            /\ pipePc' = "prompt"
    /\ UNCHANGED <<user_message, session_id, security_result, conversation_context,
                   price_phrase_instruction, output_result, pipeReply, storeBefore,
                   runs>>

\* generate, lines 63-69: _build_system_message renders the conversation
\* context; the price phrase is considered if finnhub_data is truthy.
BuildSystemMessage ==
    /\ pipePc = "prompt"
    /\ conversation_context' = <<GetContextForLlm(genSession)>>
    /\ pipePc' = IF retrieved_data.finnhub_data # Null THEN "price" ELSE "call"
    /\ UNCHANGED <<user_message, session_id, security_result, genSession,
                   retrieved_data, price_phrase_instruction, generator_response,
                   output_result, pipeReply, stages, storeBefore, runs>>

\* generate, lines 69-73: has_current_price_been_mentioned
ShouldIncludePricePhrase ==
    /\ pipePc = "price"
    /\ HasCurrentPriceBeenMentioned(genSession)
    /\ pipePc' = IF ~ret'.value THEN "phrase" ELSE "call"
    /\ UNCHANGED <<user_message, session_id, security_result, genSession,
                   retrieved_data, conversation_context, price_phrase_instruction,
                   generator_response, output_result, pipeReply, stages,
                   storeBefore, runs>>

\* The instruction of lines 78-83: the price of the phrase, in cents, and the
\* citation.
PricePhraseInstruction(finnhub_data) ==
    [kind |-> "phrase",
     current_price |-> IF finnhub_data.current_price # <<>>
                       THEN finnhub_data.current_price[1] ELSE 0,
     citation |-> LiveSource]

\* generate, lines 76-86: the instruction is added and the flag is set
AddPricePhrase ==
    /\ pipePc = "phrase"
    /\ price_phrase_instruction' = PricePhraseInstruction(retrieved_data.finnhub_data)
    /\ MarkCurrentPriceMentioned(genSession)
    /\ pipePc' = "call"
    /\ UNCHANGED <<user_message, session_id, security_result, genSession,
                   retrieved_data, conversation_context, generator_response,
                   output_result, pipeReply, stages, storeBefore, runs>>

\* generate, lines 89-102: the model call, _format_response and add_exchange
CallClaudeApi(text) ==
    /\ pipePc = "call"
    /\ generator_response' = text
    /\ AddExchangeWith(genSession, [user_query |-> user_message,
                                    assistant_response |-> text])
    /\ pipePc' = "output"
    /\ UNCHANGED <<user_message, session_id, security_result, genSession,
                   retrieved_data, conversation_context, price_phrase_instruction,
                   output_result, pipeReply, stages, storeBefore, runs>>

\* process_query_pipeline, stage 3 and the two returns after it
OutputStage ==
    /\ pipePc = "output"
    /\ output_result' = OutputEvaluate(generator_response, user_message)
    /\ stages' = Append(stages, "output")
    /\ pipeReply' =
          IF ~output_result'.approved
          THEN [kind |-> "feedback", response |-> output_result'.feedback,
                blocked |-> TRUE, session_id |-> session_id]
          ELSE [kind |-> "answer", response |-> generator_response,
                blocked |-> FALSE, session_id |-> session_id]
    /\ pipePc' = "done"
    /\ UNCHANGED <<user_message, session_id, security_result, genSession,
                   retrieved_data, conversation_context, price_phrase_instruction,
                   generator_response, storeBefore, runs>>

\* The caller has taken the reply; the locals of the run are gone.
PipelineReturn ==
    /\ pipePc = "done"
    /\ pipePc' = "idle"
    /\ user_message' = "Tell me about ESTC"
    /\ session_id' = None
    /\ security_result' = [safe |-> FALSE, reason |-> "none"]
    /\ genSession' = None
    /\ retrieved_data' = [connection_status |-> FALSE, finnhub_data |-> Null]
    /\ conversation_context' = <<>>
    /\ price_phrase_instruction' = NoPhrase
    /\ generator_response' = <<>>
    /\ output_result' = NoResult
    /\ pipeReply' = NoResult
    /\ stages' = <<>>
    /\ storeBefore' = <<>>
    /\ UNCHANGED runs

PipeInit ==
    /\ pipePc = "idle"
    /\ user_message = "Tell me about ESTC"
    /\ session_id = None
    /\ security_result = [safe |-> FALSE, reason |-> "none"]
    /\ genSession = None
    /\ retrieved_data = [connection_status |-> FALSE, finnhub_data |-> Null]
    /\ conversation_context = <<>>
    /\ price_phrase_instruction = NoPhrase
    /\ generator_response = <<>>
    /\ output_result = NoResult
    /\ pipeReply = NoResult
    /\ stages = <<>>
    /\ storeBefore = <<>>
    /\ runs = 0

\* ------------------------------------------------ concurrent generate calls

\* Each request of the threaded server runs process_query_pipeline in its own
\* thread; all share the module-level generator and the store. A run takes one
\* step per access to shared state. Two requests are in flight.
Threads == {1, 2}

\* self.api_calls.append(call)
ApiCallsAppend(t, call) ==
    /\ lists' = [lists EXCEPT ![api_calls] = Append(@, call)]
    /\ genMade' = [genMade EXCEPT ![t] = Append(@, call)]

\* generate(user_query, session_id), line 49: self.api_calls = []
GenerateReset(t, sid) ==
    /\ genPc[t] = "idle"
    /\ lists' = Append(lists, <<>>)
    /\ api_calls' = Len(lists) + 1
    /\ genSessionId' = [genSessionId EXCEPT ![t] = sid]
    /\ genPc' = [genPc EXCEPT ![t] = "session"]
    /\ UNCHANGED <<genPhrase, genMade, genStored, genLogged, storeVars>>

\* line 52: session_id = conversation_manager.get_or_create_session(session_id)
GenerateSession(t) ==
    /\ genPc[t] = "session"
    /\ GetOrCreateSession(genSessionId[t])
    /\ genSessionId' = [genSessionId EXCEPT ![t] = ret'.value]
    /\ genPc' = [genPc EXCEPT ![t] = "search"]
    /\ UNCHANGED <<genPhrase, lists, api_calls, genMade, genStored, genLogged>>

\* _retrieve_all_data, lines 432-453: the search and its record
GenerateSearch(t, found) ==
    /\ genPc[t] = "search"
    /\ IF found
       THEN ApiCallsAppend(t, [operation |-> "search", by |-> t])
       ELSE UNCHANGED <<lists, genMade>>
    /\ genPc' = [genPc EXCEPT ![t] = "market"]
    /\ UNCHANGED <<genSessionId, genPhrase, api_calls, genStored, genLogged,
                   storeVars>>

\* _retrieve_all_data, lines 456-489, and the connection check of generate
\* (lines 58-60, whose logger is not defined: generate returns there).
GenerateMarket(t, finnhub_data, connected) ==
    /\ genPc[t] = "market"
    /\ IF finnhub_data
       THEN ApiCallsAppend(t, [operation |-> "get_stock_summary", by |-> t])
       ELSE UNCHANGED <<lists, genMade>>
    /\ genPc' = [genPc EXCEPT ![t] = IF ~connected THEN "returned"
                                     ELSE IF finnhub_data THEN "check"
                                     ELSE "call"]
    /\ UNCHANGED <<genSessionId, genPhrase, api_calls, genStored, genLogged,
                   storeVars>>

\* lines 69-73: not conversation_manager.has_current_price_been_mentioned
GenerateCheck(t) ==
    /\ genPc[t] = "check"
    /\ HasCurrentPriceBeenMentioned(genSessionId[t])
    /\ genPc' = [genPc EXCEPT ![t] = IF ~ret'.value THEN "mark" ELSE "call"]
    /\ UNCHANGED <<genSessionId, genPhrase, lists, api_calls, genMade, genStored,
                   genLogged>>

\* lines 76-86: the instruction is added and the flag is set
GenerateMark(t) ==
    /\ genPc[t] = "mark"
    /\ MarkCurrentPriceMentioned(genSessionId[t])
    /\ genPhrase' = [genPhrase EXCEPT ![t] = TRUE]
    /\ genPc' = [genPc EXCEPT ![t] = "call"]
    /\ UNCHANGED <<genSessionId, lists, api_calls, genMade, genStored, genLogged>>

\* lines 89-100: the model call, then add_exchange(..., api_calls=self.api_calls),
\* which stores the list object itself, or a new list for an empty one
\* (`api_calls or []`).
\* A run whose add_exchange blocks neither returns nor raises.
GenerateStore(t) ==
    /\ genPc[t] = "call"
    /\ LET fresh == lists[api_calls] = <<>>
           ref == IF fresh THEN Len(lists) + 1 ELSE api_calls
       IN  /\ AddExchangeWith(genSessionId[t],
                              [user_query |-> t, api_calls |-> ref])
           /\ lists' = IF fresh THEN Append(lists, <<>>) ELSE lists
           /\ genStored' = [genStored EXCEPT ![t] = <<ref>>]
    /\ genPc' = [genPc EXCEPT ![t] = IF ret'.value = Blocked THEN "blocked"
                                     ELSE "returned"]
    /\ UNCHANGED <<genSessionId, genPhrase, api_calls, genMade, genLogged>>

\* app.py, line 212, after generate has returned:
\* api_calls = elasticsearch_generator.get_api_calls()
GetApiCalls(t) ==
    /\ genPc[t] = "returned"
    /\ genLogged' = [genLogged EXCEPT ![t] = <<lists[api_calls]>>]
    /\ genPc' = [genPc EXCEPT ![t] = "done"]
    /\ UNCHANGED <<genSessionId, genPhrase, lists, api_calls, genMade, genStored,
                   storeVars>>

GenInit ==
    /\ genPc = [t \in Threads |-> "idle"]
    /\ genSessionId = [t \in Threads |-> None]
    /\ genPhrase = [t \in Threads |-> FALSE]
    /\ lists = <<<<>>>>
    /\ api_calls = 1
    /\ genMade = [t \in Threads |-> <<>>]
    /\ genStored = [t \in Threads |-> <<>>]
    /\ genLogged = [t \in Threads |-> <<>>]

\* -------------------------------------------------------- specifications

\* The program with or without a market data credential.
InitAnyKey ==
    StoreInit /\ SecInit /\ OutInit /\ SearchInit /\ FinInit /\ FmtInit
      /\ PipeInit /\ GenInit
      /\ fetch_module = "data_processor"
      /\ fetch_query = <<>>
      /\ data_type_needed = "undecided"

\* The program started without a market data credential.
Init == InitAnyKey /\ ~IsAvailable(api_key)

\* The variables each component leaves alone.
notStore ==
    <<secVars, outVars, searchVars, finVars, fmtVars, pipeVars, needVars,
      genVars>>

notSecurity ==
    <<storeVars, outVars, searchVars, finVars, fmtVars, pipeVars, needVars,
      genVars>>

notOutput ==
    <<storeVars, secVars, searchVars, finVars, fmtVars, pipeVars, needVars,
      genVars>>

notSearch ==
    <<storeVars, secVars, outVars, finVars, fmtVars, pipeVars, needVars,
      genVars>>

notFinnhub ==
    <<storeVars, secVars, outVars, searchVars, fmtVars, pipeVars, needVars,
      genVars>>

notFormat ==
    <<storeVars, secVars, outVars, searchVars, finVars, pipeVars, needVars,
      genVars>>

notPipeline ==
    <<secVars, outVars, searchVars, finVars, fmtVars, needVars, genVars>>

notNeed ==
    <<storeVars, secVars, outVars, searchVars, finVars, fmtVars, pipeVars,
      genVars>>

notGenerate ==
    <<secVars, outVars, searchVars, finVars, fmtVars, pipeVars, needVars>>

\* The conversation store under every interleaving of its operations and of
\* the clock, with short histories.
Next ==
    \/ \E arg \in ClientIds \cup {None} :
          GetOrCreateSession(arg) /\ UNCHANGED notStore
    \/ \E sid \in ClientIds :
          added[sid] < MaxStoreAdds /\ AddExchange(sid) /\ UNCHANGED notStore
    \/ \E sid \in ClientIds : ClearSession(sid) /\ UNCHANGED notStore
    \/ \E sid \in ClientIds :
          HasCurrentPriceBeenMentioned(sid) /\ UNCHANGED notStore
    \/ \E sid \in ClientIds :
          MarkCurrentPriceMentioned(sid) /\ UNCHANGED notStore
    \/ Tick /\ UNCHANGED notStore

Spec == Init /\ [][Next]_vars

\* Long conversations: sessions are created, written to and cleared while
\* the clock stands still.
HistoryNext ==
    \/ \E arg \in ClientIds \cup {None} :
          GetOrCreateSession(arg) /\ UNCHANGED notStore
    \/ \E sid \in ClientIds :
          added[sid] < MaxAdds /\ AddExchange(sid) /\ UNCHANGED notStore
    \/ \E sid \in ClientIds : ClearSession(sid) /\ UNCHANGED notStore

SpecHistory == Init /\ [][HistoryNext]_vars

\* The security gate, query after query.
SecurityNext ==
    \/ \E q \in Queries : Evaluate(q) /\ UNCHANGED notSecurity
    \/ \E reply \in ClaudeReplies :
          EvaluateWithClaude(reply) /\ UNCHANGED notSecurity
    \/ SecReturn /\ UNCHANGED notSecurity

SpecSecurity == Init /\ [][SecurityNext]_vars

\* The output gate, response after response.
OutputNext ==
    \E response \in Responses, query \in OriginalQueries :
        OutEvaluate(response, query) /\ UNCHANGED notOutput

SpecOutput == Init /\ [][OutputNext]_vars

\* The fallback corpus is loaded, then searched.
SearchNext ==
    \/ \E doc \in Documents : LoadFallbackDocument(doc) /\ UNCHANGED notSearch
    \/ \E query_type \in QueryTypes, search_terms \in SearchTerms,
          limit \in 1..MaxLimit :
            SearchEstcData(query_type, search_terms, limit) /\ UNCHANGED notSearch

SpecSearch == Init /\ [][SearchNext]_vars

\* Corpora of few and of many indices, each searched once.
DiversityNext ==
    \/ \E doc \in Documents : LoadFallbackDocument(doc) /\ UNCHANGED notSearch
    \/ \E doc \in UNION {WideDocuments(n) : n \in 1..MaxWideDocs} :
            LoadWideDocument(doc) /\ UNCHANGED notSearch
    \/ \E query_type \in QueryTypes, search_terms \in SearchTerms,
          limit \in (1..MaxLimit) \cup WideLimits :
            /\ searchRet.op = "none"
            /\ SearchEstcData(query_type, search_terms, limit)
            /\ UNCHANGED notSearch

SpecDiversity == Init /\ [][DiversityNext]_vars

\* The market data client, fetch after fetch.
FinnhubNext ==
    \/ \E response \in ProviderResponses :
            GetCurrentPrice(response) /\ UNCHANGED notFinnhub
    \/ \E response \in ProviderResponses :
            GetHistoricalData(30, response) /\ UNCHANGED notFinnhub
    \/ \E years \in 1..MaxYears, today \in Todays, schedule \in Variations,
          response \in ProviderResponses :
            GetExtendedHistoricalData(years, today, schedule, response)
              /\ UNCHANGED notFinnhub
    \/ \E target_date \in TargetDates, response \in ProviderResponses :
            GetPriceForDate(target_date, response) /\ UNCHANGED notFinnhub
    \/ \E quote, candles \in ProviderResponses :
            GetStockSummary(quote, candles) /\ UNCHANGED notFinnhub
    \/ FinReturn /\ UNCHANGED notFinnhub

SpecFinnhub == InitAnyKey /\ [][FinnhubNext]_vars

\* Replies are formatted, and formatted again.
FormatNext ==
    \/ /\ fmtPc = "idle"
       /\ \E response \in Replies :
            FormatResponse(response) /\ UNCHANGED notFormat
    \/ Reformat /\ UNCHANGED notFormat
    \/ FormatReturn /\ UNCHANGED notFormat

SpecFormat == Init /\ [][FormatNext]_vars

\* The chat pipeline, run after run, with or without a market data
\* credential; the clock stands still.
PipelineNext ==
    \/ /\ pipePc = "idle"
       /\ \E message \in Messages, sid \in ClientIds \cup {None},
             reply \in ClaudeReplies :
            /\ ProcessQueryPipeline(message, sid, reply)
            /\ UNCHANGED <<storeVars, notPipeline>>
    \/ /\ pipePc = "generate"
       /\ \E connected \in BOOLEAN, quote \in QuoteAnswers,
             candles \in CandleAnswers :
            GenerateRetrieve(connected, quote, candles) /\ UNCHANGED notPipeline
    \/ BuildSystemMessage /\ UNCHANGED <<storeVars, notPipeline>>
    \/ ShouldIncludePricePhrase /\ UNCHANGED notPipeline
    \/ AddPricePhrase /\ UNCHANGED notPipeline
    \/ /\ pipePc = "call"
       /\ \E text \in PipelineReplies \cup {ClaudeApiError} :
            CallClaudeApi(text) /\ UNCHANGED notPipeline
    \/ OutputStage /\ UNCHANGED <<storeVars, notPipeline>>
    \/ PipelineReturn /\ UNCHANGED <<storeVars, notPipeline>>

SpecPipeline == InitAnyKey /\ [][PipelineNext]_vars

\* The fetch-need decision, query after query.
FetchNeedNext ==
    \/ /\ data_type_needed = "undecided"
       /\ \E module \in {"data_processor", "elasticsearch_generator"},
             n \in 0..MaxWords :
             \E words \in [1..n -> {"estc", "stock", "revenue", "years", "today",
                                    "know", "sell", "doing"}] :
                DecideFetch(module, words) /\ UNCHANGED notNeed
    \/ FetchReturn /\ UNCHANGED notNeed

SpecFetchNeed == Init /\ [][FetchNeedNext]_vars

\* Generate calls in threads of their own, each for a new session or for one
\* that is in the store.
ConcurrentNext ==
    \/ \E t \in Threads :
          /\ genPc[t] = "idle"
          /\ \E sid \in {None} \cup DOMAIN sessions :
                GenerateReset(t, sid) /\ UNCHANGED notGenerate
    \/ \E t \in Threads : GenerateSession(t) /\ UNCHANGED notGenerate
    \/ \E t \in Threads :
          /\ genPc[t] = "search"
          /\ \E found \in BOOLEAN :
                GenerateSearch(t, found) /\ UNCHANGED notGenerate
    \/ \E t \in Threads :
          /\ genPc[t] = "market"
          /\ \E finnhub_data, connected \in BOOLEAN :
                GenerateMarket(t, finnhub_data, connected) /\ UNCHANGED notGenerate
    \/ \E t \in Threads : GenerateCheck(t) /\ UNCHANGED notGenerate
    \/ \E t \in Threads : GenerateMark(t) /\ UNCHANGED notGenerate
    \/ \E t \in Threads : GenerateStore(t) /\ UNCHANGED notGenerate
    \/ \E t \in Threads : GetApiCalls(t) /\ UNCHANGED notGenerate

SpecConcurrent == Init /\ [][ConcurrentNext]_vars

\* ------------------------------------------------------------------ claims

History(sid) == sessions[sid].conversation_history

\* C1: after N add_exchange calls on a session (none of them separated by a
\* clear or an eviction of the session) its history holds exactly min(N, 20)
\* exchanges, and they are the last min(N, 20) added, in the order added.
C1_HistoryIsMostRecent ==
    \A sid \in DOMAIN sessions :
        LET N == added[sid]
            k == Min(N, 20)
        IN  /\ Len(History(sid)) = k
            /\ \A i \in 1..k : History(sid)[i].user_query = N - k + i

\* A session that took 21 exchanges and dropped the first.
C1_Witness ==
    \E sid \in DOMAIN sessions :
        /\ added[sid] = 21
        /\ Len(History(sid)) = 20
        /\ History(sid)[1].user_query = 2
        /\ History(sid)[20].user_query = 21

\* C2: get_or_create_session with no id, or with an id that is not in the
\* store, returns an id that was not in the store and whose session is in
\* the store with an empty history; with an id that is in the store it
\* returns that id and leaves the session's history as it was.
C2_GetOrCreate ==
    [][\A arg \in Ids \cup {None} :
          GetOrCreateSession(arg) =>
             IF arg # None /\ arg \in DOMAIN sessions
             THEN /\ ret'.value = arg
                  /\ arg \in DOMAIN sessions'
                  /\ sessions'[arg].conversation_history
                        = sessions[arg].conversation_history
             ELSE /\ ret'.value \notin DOMAIN sessions
                  /\ ret'.value \in DOMAIN sessions'
                  /\ sessions'[ret'.value].conversation_history = <<>>]_vars

\* get_or_create_session returned the id it was given, of a session that
\* holds an exchange.
C2_Witness ==
    /\ ret.op = "get_or_create_session"
    /\ ret.arg # None
    /\ ret.value = ret.arg
    /\ ret.value \in DOMAIN sessions
    /\ History(ret.value) # <<>>

\* What has_current_price_been_mentioned(sid) returns in a store sess.
PriceMentioned(sess, sid) ==
    sid \in DOMAIN sess /\ sess[sid].current_price_mentioned

\* The flag of an id turns true only in mark_current_price_mentioned(id), and
\* has_current_price_been_mentioned returns the flag.
C3_FalseUntilMarked ==
    \A sid \in Ids :
        /\ (~PriceMentioned(sessions, sid) /\ PriceMentioned(sessions', sid))
              => MarkCurrentPriceMentioned(sid)
        /\ HasCurrentPriceBeenMentioned(sid)
              => /\ ret'.value = PriceMentioned(sessions, sid)
                 /\ ret'.value = PriceMentioned(sessions', sid)

\* C3 as stated: has_current_price_been_mentioned(id) is false until
\* mark_current_price_mentioned(id), and true after it whatever store
\* operations follow.
C3_FlagPermanent ==
    [][/\ C3_FalseUntilMarked
       /\ \A sid \in Ids :
             PriceMentioned(sessions, sid) => PriceMentioned(sessions', sid)]_vars

\* C3 as amended: has_current_price_been_mentioned(id) is false until
\* mark_current_price_mentioned(id), and true after it for as long as the
\* session of that id stays in the store.
C3_FlagWhileStored ==
    [][/\ C3_FalseUntilMarked
       /\ \A sid \in Ids :
             (PriceMentioned(sessions, sid) /\ sid \in DOMAIN sessions')
                => PriceMentioned(sessions', sid)]_vars

\* has_current_price_been_mentioned returned true for a marked session that
\* has since taken an exchange.
C3_Witness ==
    /\ ret.op = "has_current_price_been_mentioned"
    /\ ret.value = TRUE
    /\ ret.arg \in DOMAIN sessions
    /\ History(ret.arg) # <<>>

\* C4: a query longer than 1000 characters, or with more than 15 structural
\* special characters, is blocked whatever it contains: evaluate returns
\* safe = false without a result of the pattern scan and without a model
\* call.
C4_HardCaps ==
    (secPc # "idle"
       /\ (QueryLen(user_query) > 1000 \/ SpecialCharCount(user_query) > 15))
    => /\ secPc = "done"
       /\ secResult.safe = FALSE
       /\ llmCalls = 0
       /\ matched_patterns = <<>>
       /\ "patterns_matched" \notin DOMAIN secResult

\* A query of 1001 characters that spells a pattern was blocked.
C4_Witness ==
    /\ secPc = "done"
    /\ QueryLen(user_query) = 1001
    /\ SpecialCharCount(user_query) <= 15
    /\ FindMatchingPatterns(user_query) # <<>>
    /\ secResult.safe = FALSE

\* C5: a query within both caps that matches no pattern is allowed at once,
\* with no model call; and the model is called exactly when the scan matched
\* a pattern.
C5_FastPath ==
    secPc # "idle"
    => /\ (/\ QueryLen(user_query) <= 1000
           /\ SpecialCharCount(user_query) <= 15
           /\ FindMatchingPatterns(user_query) = <<>>)
          => (secPc = "done" /\ secResult.safe = TRUE /\ llmCalls = 0)
       /\ llmCalls > 0 <=> matched_patterns # <<>>

\* A query at both caps (1000 characters, 15 of them brackets) was allowed
\* without a model call.
C5_Witness ==
    /\ secPc = "done"
    /\ QueryLen(user_query) = 1000
    /\ SpecialCharCount(user_query) = 15
    /\ user_query.words # <<>>
    /\ secResult.safe = TRUE
    /\ llmCalls = 0

\* C6: when the scan matched a pattern and the adjudication call raises,
\* evaluate returns a result, which blocks and carries the matched patterns.
C6_FailClosed ==
    (secPc = "done" /\ claude_reply.kind = "raise")
    => /\ matched_patterns # <<>>
       /\ DOMAIN secResult = {"safe", "reason", "patterns_matched"}
       /\ secResult.safe = FALSE
       /\ secResult.patterns_matched = FindMatchingPatterns(user_query)

\* The model call raised on a query that matched a pattern of each family.
C6_Witness ==
    /\ secPc = "done"
    /\ claude_reply.kind = "raise"
    /\ Len(matched_patterns) = 2
    /\ secResult.safe = FALSE

\* The sensitive-data patterns that match a response, as the claims name
\* them: the listed patterns and the raw IPv4 address.
Offenders(response) ==
    {p \in {sensitive_patterns[k] : k \in DOMAIN sensitive_patterns} :
        \E i \in 1..Len(response) : p \in FragmentText(response[i]).sensitive}
      \cup (IF \E i \in 1..Len(response) : FragmentText(response[i]).ip
            THEN {"ip"} ELSE {})

\* C7: a response that no sensitive-data pattern matches is approved,
\* whatever its length, its wording and the original query.
C7_ApprovedWhenClean ==
    (outResult.category # "none" /\ Offenders(outResponse) = {})
    => outResult.approved = TRUE

\* C8: a response that a sensitive-data pattern matches is rejected with the
\* category "security" and a feedback that names the first pattern, in the
\* order of the scan (the listed patterns, then the IPv4 address), that
\* matches; whatever the quality and completeness checks would say.
C8_RejectsSensitive ==
    (outResult.category # "none" /\ Offenders(outResponse) # {})
    => /\ outResult.approved = FALSE
       /\ outResult.category = "security"
       /\ outResult.feedback.text = "Response contains sensitive data"
       /\ outResult.feedback.pattern \in Offenders(outResponse)
       /\ \A k \in DOMAIN sensitive_patterns :
             sensitive_patterns[k] \in Offenders(outResponse)
             => \E j \in 1..k : outResult.feedback.pattern = sensitive_patterns[j]

\* The response "password: abc123", too short for the quality check, was
\* rejected for security.
C8_Witness ==
    /\ outResponse = <<"password: abc123">>
    /\ outResult.category = "security"
    /\ outResult.feedback.pattern = "password"

\* C9: a fallback search returns at most `limit` results.
C9_AtMostLimit ==
    searchRet.op = "search" => Len(searchRet.ret.results) <= searchRet.limit

\* C10: the results of a fallback search are in non-increasing order of
\* score: of two adjacent results the earlier has the score >= the later.
C10_SortedByScore ==
    searchRet.op = "search"
    => \A i \in 1..(Len(searchRet.ret.results) - 1) :
          searchRet.ret.results[i].score >= searchRet.ret.results[i + 1].score

\* The documents of the corpus that the last search scored above zero.
MatchingDocs ==
    {fallback_data[i] : i \in {j \in 1..Len(fallback_data) :
        Score(fallback_data[j], searchRet.query_type, searchRet.search_terms) > 0}}

MatchingIndices == {doc._index : doc \in MatchingDocs}

\* C11: a fallback search with limit >= 2 over a corpus with matching
\* documents in at least 2 indices returns results of at least 2 indices;
\* the first min(limit, 6, number of matching indices) results come from
\* pairwise different indices and each has the top score of its index.
C11_Diversity ==
    (searchRet.op = "search" /\ searchRet.limit >= 2
        /\ Cardinality(MatchingIndices) >= 2)
    => LET results == searchRet.ret.results
           k == Min(searchRet.limit, Min(6, Cardinality(MatchingIndices)))
       IN  /\ Len(results) >= k
           /\ Cardinality({results[i].index : i \in 1..Len(results)}) >= 2
           /\ \A i, j \in 1..k : i # j => results[i].index # results[j].index
           /\ \A i \in 1..k :
                 /\ results[i].source \in MatchingDocs
                 /\ \A doc \in MatchingDocs :
                       doc._index = results[i].index
                       => results[i].score >= Score(doc, searchRet.query_type,
                                                    searchRet.search_terms)

\* A search with limit 10 over seven matching indices: the diversity pass
\* stopped at six, and the seventh result is a second document of an index
\* already taken, ahead of the document of the seventh index.
C11_Witness ==
    /\ searchRet.op = "search"
    /\ searchRet.limit = 10
    /\ Cardinality(MatchingIndices) = 7
    /\ Len(searchRet.ret.results) = 8
    /\ \E i \in 1..6 : searchRet.ret.results[i].index = searchRet.ret.results[7].index

\* C12: without a credential every fetch operation returns null and makes
\* no request.
C12_NullWithoutCredential ==
    (finRet.op # "none" /\ ~IsAvailable(api_key))
    => (finRet.value = Null /\ finRet.made = 0 /\ requests = 0)

\* The provider answered the candle request with data.
ProviderSucceeded ==
    /\ IsAvailable(api_key)
    /\ finRet.made = 1
    /\ finRet.response.kind = "candles"
    /\ finRet.response.s = "ok"

\* C13: get_extended_historical_data always returns a record. When the
\* provider denies access (403), answers another HTTP error or a payload that
\* is not ok, or the request raises, the record is the synthetic series and
\* its source is not the live one; a record with the live source holds the
\* candles of a successful provider response.
C13_NeverPropagates ==
    finRet.op = "get_extended_historical_data"
    => /\ finRet.value # Null
       /\ finRet.value.kind = "extended"
       /\ ~ProviderSucceeded
            => /\ finRet.value.source # LiveSource
               /\ finRet.value.source = FallbackSource
               /\ DOMAIN finRet.value.price_data # {}
       /\ finRet.value.source = LiveSource
            => /\ ProviderSucceeded
               /\ DOMAIN finRet.value.price_data =
                    {finRet.response.t[i].t : i \in 1..Len(finRet.response.t)}
               /\ \A i \in 1..Len(finRet.response.t) :
                     \E j \in i..Len(finRet.response.t) :
                        /\ finRet.response.t[j].t = finRet.response.t[i].t
                        /\ finRet.value.price_data[finRet.response.t[i].t].close
                             = finRet.response.t[j].c

\* The provider denied access to a configured client, and the client
\* returned the synthetic series.
C13_Witness ==
    /\ finRet.op = "get_extended_historical_data"
    /\ IsAvailable(api_key)
    /\ finRet.response = [kind |-> "status", status |-> 403]
    /\ finRet.value.source = FallbackSource

\* C14: the synthetic series for `years` years has one entry for every day
\* from today - 365 * years to today, both included, and no other; every
\* close, high, low and open of it is at least the floor price of 20.0.
C14_SyntheticSeries ==
    (finRet.op = "get_extended_historical_data"
        /\ finRet.value.source = FallbackSource)
    => LET price_data == finRet.value.price_data
           today == finRet.arg.today
       IN  /\ DOMAIN price_data = (today - 365 * finRet.arg.years)..today
           /\ \A date \in DOMAIN price_data :
                 /\ price_data[date].date = date
                 /\ price_data[date].close >= 2000
                 /\ price_data[date].high >= 2000
                 /\ price_data[date].low >= 2000
                 /\ price_data[date].open >= 2000

\* A synthetic series that starts before the first milestone and runs over
\* the lowest one (30.0 on 2020-03-15), every day with the least variation.
C14_Witness ==
    /\ finRet.op = "get_extended_historical_data"
    /\ finRet.value.source = FallbackSource
    /\ finRet.arg.today = 500
    /\ 365 \in DOMAIN finRet.value.price_data
    /\ 364 \in DOMAIN finRet.value.price_data
    /\ finRet.value.price_data[439].close = 2850
    /\ finRet.value.price_data[439].low = 2793

\* C15: formatting a formatted reply gives the formatted reply again; a
\* formatted reply has no run of three newlines and neither starts nor ends
\* with whitespace.
C15_FormatIdempotent ==
    /\ fmtPc = "reformatted" => fmtReformatted = fmtFormatted
    /\ fmtPc \in {"formatted", "reformatted"}
        => /\ \A i \in 1..(Len(fmtFormatted) - 2) :
                 ~(fmtFormatted[i] = "\n" /\ fmtFormatted[i + 1] = "\n"
                     /\ fmtFormatted[i + 2] = "\n")
           /\ fmtFormatted # <<>>
                => /\ fmtFormatted[1] \notin {" ", "\n"}
                   /\ fmtFormatted[Len(fmtFormatted)] \notin {" ", "\n"}

\* C16: when generate has built the prompt for a new query in a session that
\* holds k stored exchanges (1 <= k <= 20), the rendered context holds all k
\* of them in order, the most recent one included, each response shown up to
\* 300 characters; the context is the empty string only when k = 0.
C16_ContextHoldsAllPrevious ==
    (pipePc \in {"price", "phrase", "call"} /\ genSession \in DOMAIN sessions)
       => LET history == sessions[genSession].conversation_history
              context == conversation_context[1]
          IN  /\ Len(history) <= max_conversation_tokens \div avg_tokens_per_exchange
              /\ Len(context) = Len(history)
              /\ \A i \in 1..Len(context) :
                    /\ context[i].user_query = history[i].user_query
                    /\ context[i].assistant_response = history[i].assistant_response
                    /\ context[i].shown =
                          Min(ResponseLen(history[i].assistant_response),
                              context_response_cap)
              /\ (context = <<>>) <=> (history = <<>>)

C19_StoreAfterApproval ==
    /\ (pipePc \in {"output", "done"} /\ ret.op = "add_exchange")
          => (pipePc = "done" /\ output_result.approved)
    /\ (pipePc = "done" /\ output_result # NoResult /\ ~output_result.approved)
          => /\ pipeReply.kind = "feedback"
             /\ pipeReply.response = output_result.feedback
             /\ pipeReply.blocked
             /\ genSession \in DOMAIN sessions
                   => \A i \in 1..Len(sessions[genSession].conversation_history) :
                         sessions[genSession].conversation_history[i].assistant_response
                            # generator_response

\* The market data of the turn is a live current snapshot with a current
\* price.
LiveSnapshot(finnhub_data) ==
    /\ finnhub_data # Null
    /\ finnhub_data.kind = "summary"
    /\ finnhub_data.source = LiveSource
    /\ finnhub_data.current_price # <<>>

\* C20: the price framing instruction, with its finnhub.io API citation, is
\* added to a generation, and the price flag of the session is set by it, only
\* when the market data of the turn is a live current snapshot with a current
\* price, which is then the price of the phrase.
C20_PricePhraseOnlyLive ==
    /\ price_phrase_instruction # NoPhrase
          => /\ LiveSnapshot(retrieved_data.finnhub_data)
             /\ price_phrase_instruction.current_price
                   = retrieved_data.finnhub_data.current_price[1]
    /\ (pipePc = "call" /\ ret.op = "mark_current_price_mentioned")
          => LiveSnapshot(retrieved_data.finnhub_data)

\* C27: every add_exchange returns, also for an id that is not in the store
\* when it is called; it leaves the store's mutex free and the store holds
\* the exchange in some session.
C27_AddExchangeReturns ==
    ret.op = "add_exchange"
       => /\ ret.value # Blocked
          /\ lock = "free"
          /\ \E i \in DOMAIN sessions : sessions[i].conversation_history # <<>>

\* C28: after every store operation the store holds at most max_sessions
\* sessions, and the read-style has_current_price_been_mentioned leaves the
\* set of sessions as it was.
C28_SessionCap ==
    [][/\ Cardinality(DOMAIN sessions') <= max_sessions
       /\ ret'.op = "has_current_price_been_mentioned"
             => DOMAIN sessions' = DOMAIN sessions]_vars

\* C26: when patterns matched and the reply of the model is not the
\* structured verdict, the gate allows only on an affirmative safe signal:
\* a raw text that signals unsafe ('unsafe', 'safe: false'), with or without
\* the word 'true', is blocked.
C26_UnsafeTextBlocks ==
    (secPc = "done" /\ matched_patterns # <<>> /\ claude_reply.kind = "text")
       => /\ secResult.safe => (claude_reply.has_safe /\ claude_reply.has_true)
          /\ claude_reply.has_unsafe => ~secResult.safe

\* C23: the fetch-need decision is 'historical' if the query has
\* historical-range language; otherwise 'current' if it has current-price
\* language, or its classified intent is 'stock', or it has an
\* investment-decision verb; otherwise 'none'.
C23_FetchNeedDecision ==
    LET In(keywords) == \E k \in keywords : InQuery(k, fetch_query)
    IN  data_type_needed # "undecided"
           => data_type_needed =
                  IF In(historical_keywords) THEN "historical"
                  ELSE IF \/ In(current_price_keywords)
                          \/ PrimaryType(fetch_query) = "stock"
                          \/ In(stock_decision_keywords)
                  THEN "current"
                  ELSE "none"

\* C24: when the connection status of the retrieval is false, generate
\* returns the explicit 'unable to connect' error text, makes no model call
\* and appends no exchange to the session.
C24_UpstreamUnavailable ==
    (/\ pipePc \in {"output", "done"}
     /\ genSession # None
     /\ ~retrieved_data.connection_status)
       => /\ generator_response =
                <<"ERROR: Unable to connect to Elasticsearch data source. Please check the connection and try again. I cannot provide ESTC analysis without access to the financial data.">>
          /\ ret.op # "add_exchange"
          /\ sessions[genSession].conversation_history
                = IF genSession \in DOMAIN storeBefore
                  THEN storeBefore[genSession].conversation_history
                  ELSE <<>>

\* C29: the session id of the reply of a turn that was not blocked is the id
\* of the session in which the exchange of the turn was stored.
C29_ReplyIdentifiesSession ==
    (pipePc = "done" /\ ~pipeReply.blocked)
       => /\ pipeReply.session_id = genSession
          /\ pipeReply.session_id \in DOMAIN sessions

\* C30: when the model call of the turn fails, the history of the session is
\* the same after generate as before it.
C30_FailedCallNotStored ==
    (pipePc \in {"output", "done"} /\ generator_response = ClaudeApiError)
       => /\ genSession \in DOMAIN sessions
          /\ sessions[genSession].conversation_history
                = IF genSession \in DOMAIN storeBefore
                  THEN storeBefore[genSession].conversation_history
                  ELSE <<>>

\* C21: of the generate calls that run at the same time on one session, each
\* with market data, at most one passes the check of the flag and gets the
\* price phrase instruction.
C21_PricePhraseOnce ==
    \A t, u \in Threads :
        (t # u /\ genSessionId[t] # None /\ genSessionId[t] = genSessionId[u])
           => /\ ~(genPc[t] = "mark" /\ genPc[u] = "mark")
              /\ ~(genPhrase[t] /\ genPhrase[u])

\* C22: the call records attached to the exchange of a run, and those the
\* caller of generate gets for the audit log, are the calls made by that run.
C22_OwnApiCalls ==
    \A t \in Threads :
        /\ genStored[t] # <<>> => lists[genStored[t][1]] = genMade[t]
        /\ genLogged[t] # <<>> => genLogged[t][1] = genMade[t]

\* C25: no generate call is left without a return: none blocks for ever.
C25_AlwaysReturns == \A t \in Threads : genPc[t] # "blocked"

====
